---- MODULE Spec2Model ----
(***************************************************************************)
(* A model of three parts of calm-dsl:                                     *)
(*   - strip_secrets / patch_secrets / strip_vmware_secrets of             *)
(*     calm/dsl/api/util.py, the walk that detaches secret values from a   *)
(*     request payload and re-attaches them by path;                       *)
(*   - the marketplace item commands of calm/dsl/cli/mpis.py, acting on    *)
(*     the items held by the server.                                       *)
(* JSON mappings are records (functions with a finite domain of strings),  *)
(* JSON lists are sequences, Python's None is the string NONE.             *)
(***************************************************************************)
EXTENDS Integers, Sequences, FiniteSets, TLC

VARIABLES
    object_lists,          \* strip_secrets' object_lists argument
    objects,               \* strip_secrets' objects argument
    resources,             \* the payload strip_secrets / patch_secrets mutate in place
    orig,                  \* the payload as it was handed to strip_secrets (history)
    secret_map,            \* credential name -> detached secret
    secret_variables,      \* list of (path, value, name)
    not_stripped_secrets,  \* list of (path, value)
    decompiled_secrets,    \* context -> (name -> recorded value)
    caller_path_list,      \* the list strip_vmware_secrets extends in place
    pc,                    \* "start" | "stripped" | "patched" | "raised"
    items,                 \* the server's marketplace items, by uuid
    next_uuid,             \* the uuid the server gives the next item it creates
    call,                  \* the command being run, with its arguments and what the servers answer
    outcome,               \* what the command returned, raised, logged and sent
    CATEGORIES_PAYLOAD     \* the class attribute AhvNew.CATEGORIES_PAYLOAD

stripVars == <<object_lists, objects, resources, orig, secret_map, secret_variables,
               not_stripped_secrets, decompiled_secrets, caller_path_list, pc>>
mpiVars == <<items, next_uuid>>
cmdVars == <<call, outcome, CATEGORIES_PAYLOAD>>
allVars == <<stripVars, mpiVars, cmdVars>>

----------------------------------------------------------------------------
(* Python values *)

NONE == "None"
EmptyDict == [k \in {} |-> TRUE]

Has(d, k) == k \in DOMAIN d
Get(d, k, default) == IF k \in DOMAIN d THEN d[k] ELSE default
Pop(d, k) == [j \in DOMAIN d \ {k} |-> d[j]]
Put(d, k, v) == [j \in DOMAIN d \cup {k} |-> IF j = k THEN v ELSE d[j]]
SetIdx(l, i, v) == [l EXCEPT ![i] = v]

----------------------------------------------------------------------------
(* The marketplace items the server holds *)

MaxItems == 2      \* marketplace items the server is ever asked to hold

Uuids == 1..MaxItems

(* no item under this uuid *)
NoItem ==
    [name |-> "", version |-> "", app_state |-> "NONE", app_source |-> "",
     app_group_uuid |-> 0, project_reference_list |-> <<>>,
     category |-> NONE, description |-> ""]

(* a server with no marketplace items: where the walks over a payload run *)
NoMarketplace ==
    /\ items = [u \in Uuids |-> NoItem]
    /\ next_uuid = 1

(* A path element: a mapping key or a 0-based list index. *)
K(s) == [t |-> "key", s |-> s, i |-> 0]
I(n) == [t |-> "idx", s |-> "", i |-> n]

(* What the walk carries along: the two output lists and whether an         *)
(* exception (KeyError, AttributeError) has been raised.                    *)
Walk(sv, ns, err) == [sv |-> sv, ns |-> ns, err |-> err]
Raise(st) == [st EXCEPT !.err = TRUE]

----------------------------------------------------------------------------
(* get_secrets_from_context, is_secret_modified *)

get_secrets_from_context(dec, context) ==
    IF context \in DOMAIN dec THEN dec[context] ELSE EmptyDict

(* a secret whose name was never recorded taken as unmodified *)
is_secret_modified_known_only(filtered_secrets, name, value) ==
    name \in DOMAIN filtered_secrets /\ filtered_secrets[name] # value

(* a recorded secret taken as unmodified whatever its value *)
is_secret_modified_by_name(filtered_secrets, name, value) ==
    name \notin DOMAIN filtered_secrets

is_secret_modified(filtered_secrets, name, value) ==
    IF name \in DOMAIN filtered_secrets /\ filtered_secrets[name] # value
    THEN TRUE
    ELSE IF name \notin DOMAIN filtered_secrets THEN TRUE
    ELSE FALSE

----------------------------------------------------------------------------
(* strip_secrets: the placeholders it leaves *)

CredPlaceholder ==
    [attrs |-> [is_secret_modified |-> FALSE, secret_reference |-> NONE]]

VarPlaceholderAttrs ==
    [is_secret_modified |-> FALSE, secret_reference |-> NONE]

VarAuthPlaceholder ==
    [value |-> NONE, attrs |-> [is_secret_modified |-> FALSE]]

TaskAuthPlaceholder ==
    [attrs |-> [is_secret_modified |-> FALSE, secret_reference |-> NONE]]

AuthPlaceholder == [attrs |-> [is_secret_modified |-> FALSE]]

EndpointAuthPlaceholder ==
    [attrs |-> [is_secret_modified |-> FALSE, value |-> NONE]]

(* Python truth of a string-or-None value and of a mapping *)
Truthy(v) == v # NONE /\ v # ""
NonEmpty(d) == DOMAIN d # {}

SecretVar(path, value, name) == [path |-> path, value |-> value, name |-> name]
NotStripped(path, value) == [path |-> path, value |-> value]

----------------------------------------------------------------------------
(* A step of the walk gives back the mapping or list it mutated, with the   *)
(* lists it appended to.                                                    *)

Res(v, st) == [v |-> v, st |-> st]
(* d[k] = r.v, for a key d has *)
IntoField(d, k, r) == Res(IF Has(d, k) THEN Put(d, k, r.v) ELSE d, r.st)
(* l[i] = r.v *)
IntoIdx(l, i, r) == Res(SetIdx(l, i, r.v), r.st)
AddSecret(st, e) == [st EXCEPT !.sv = Append(@, e)]
AddNotStripped(st, e) == [st EXCEPT !.ns = Append(@, e)]

----------------------------------------------------------------------------
(* strip_entity_secret_variables *)

(* lines 105-125: a variable of type SECRET *)
StripSecretValue(path, variable, filtered, st) ==
    IF variable.type # "SECRET" THEN Res(variable, st)
    ELSE IF is_secret_modified(filtered, Get(variable, "name", NONE),
                               Get(variable, "value", NONE))
    THEN IF ~Has(variable, "value")
         THEN Res(variable, Raise(st))                    \* pop("value"): KeyError
         ELSE Res(Put(Pop(variable, "value"), "attrs", VarPlaceholderAttrs),
                  AddSecret(st, SecretVar(path, variable.value,
                                          Get(variable, "name", NONE))))
    ELSE IF Truthy(Get(variable, "value", NONE))
    THEN Res(variable, AddNotStripped(st, NotStripped(path, variable.value)))
    ELSE Res(variable, st)

OptionsAuth(variable) ==
    Get(Get(Get(variable, "options", EmptyDict), "attrs", EmptyDict),
        "authentication", EmptyDict)

OptionsAuthPath ==
    <<K("options"), K("attrs"), K("authentication"), K("basic_auth"),
      K("password")>>

(* lines 126-156: a dynamic variable whose HTTP task carries basic auth; a
   is the variable after lines 105-125 *)
StripVariableOptions(path, a) ==
    IF a.st.err THEN a
    ELSE IF ~(NonEmpty(OptionsAuth(a.v))
              /\ Get(OptionsAuth(a.v), "auth_type", NONE) = "basic")
    THEN a
    ELSE IF ~Has(OptionsAuth(a.v), "basic_auth")
            \/ ~Has(OptionsAuth(a.v).basic_auth, "password")
    THEN Res(a.v, Raise(a.st))
    ELSE Res([a.v EXCEPT !.options.attrs.authentication.basic_auth.password =
                             VarAuthPlaceholder],
             AddSecret(a.st,
                 SecretVar(path \o OptionsAuthPath,
                           Get(OptionsAuth(a.v).basic_auth.password, "value", NONE),
                           Get(OptionsAuth(a.v).basic_auth, "username", NONE))))

StripVariable(path, variable, filtered, st) ==
    StripVariableOptions(path, StripSecretValue(path, variable, filtered, st))

(* the loop of line 104, from the variable at position i (1-based) on; acc
   is the list with the variables before i done *)
RECURSIVE StripVariableLoop(_, _, _, _)
StripVariableLoop(path, acc, i, filtered) ==
    IF i > Len(acc.v) \/ acc.st.err THEN acc
    ELSE StripVariableLoop(
             path,
             IntoIdx(acc.v, i, StripVariable(path \o <<I(i - 1)>>, acc.v[i],
                                             filtered, acc.st)),
             i + 1, filtered)

EntityContext(obj, field_name, context) ==
    IF field_name # "headers" /\ Truthy(Get(obj, "name", NONE))
    THEN context \o "." \o obj.name \o "." \o field_name
    ELSE context

strip_entity_secret_variables(path_list, obj, field_name, context, dec, st) ==
    IF st.err THEN Res(obj, st)
    ELSE IntoField(obj, field_name,
             StripVariableLoop(
                 path_list \o <<K(field_name)>>,
                 Res(Get(obj, field_name, <<>>), st), 1,
                 get_secrets_from_context(
                     dec, EntityContext(obj, field_name, context))))

----------------------------------------------------------------------------
(* strip_action_secret_variables *)

BasicAuthPath ==
    <<K("attrs"), K("authentication"), K("basic_auth"), K("password")>>

TaskAuth(task) ==
    Get(Get(task, "attrs", EmptyDict), "authentication", EmptyDict)
TaskBasicAuth(task) == Get(TaskAuth(task), "basic_auth", EmptyDict)
TaskPassword(task) == Get(TaskBasicAuth(task), "password", EmptyDict)
TaskHeaders(task) == Get(Get(task, "attrs", EmptyDict), "headers", <<>>)

(* lines 194-252: the basic-auth password of an HTTP task of an action
   runbook; task_path is path_list + [action_list, action_idx, runbook,
   task_definition_list, task_idx] *)
StripActionTaskAuth(task_path, task, task_context, dec, st) ==
    IF Get(TaskAuth(task), "auth_type", NONE) # "basic" THEN Res(task, st)
    ELSE IF is_secret_modified(
                get_secrets_from_context(
                    dec, task_context \o "." \o task.name \o ".basic_auth"),
                Get(TaskBasicAuth(task), "username", NONE),
                Get(TaskPassword(task), "value", NONE))
    THEN IF ~Has(TaskAuth(task), "basic_auth")
            \/ ~Has(TaskBasicAuth(task), "password")
            \/ ~Has(TaskPassword(task), "value")
         THEN Res(task, Raise(st))                        \* KeyError
         ELSE Res([task EXCEPT !.attrs.authentication.basic_auth.password =
                                   TaskAuthPlaceholder],
                  AddSecret(st, SecretVar(task_path \o BasicAuthPath,
                                          TaskPassword(task).value,
                                          Get(TaskBasicAuth(task), "username", NONE))))
    ELSE IF ~Has(TaskAuth(task), "basic_auth")
            \/ ~Has(TaskBasicAuth(task), "password")
    THEN Res(task, Raise(st))                             \* None.get: AttributeError
    ELSE IF Truthy(Get(TaskPassword(task), "value", NONE))
    THEN Res(task, AddNotStripped(st, NotStripped(task_path \o BasicAuthPath,
                                                  TaskPassword(task).value)))
    ELSE Res(task, st)

(* lines 254-271: the headers of an HTTP task of an action runbook; a is the
   task after lines 194-252 *)
StripActionTaskHeaders(task_path, a, task_context, dec) ==
    IF a.st.err \/ TaskHeaders(a.v) = <<>> THEN a
    ELSE IntoField(a.v, "attrs",
             strip_entity_secret_variables(
                 task_path \o <<K("attrs")>>, a.v.attrs, "headers",
                 task_context \o "." \o a.v.name \o ".headers", dec, a.st))

(* lines 181-271: one task of the runbook of an action *)
StripActionTask(task_path, task, task_context, dec, st) ==
    IF Get(task, "type", NONE) # "HTTP" THEN Res(task, st)
    ELSE StripActionTaskHeaders(
             task_path,
             StripActionTaskAuth(task_path, task, task_context, dec, st),
             task_context, dec)

RECURSIVE StripActionTaskLoop(_, _, _, _, _)
StripActionTaskLoop(tasks_path, acc, i, task_context, dec) ==
    IF i > Len(acc.v) \/ acc.st.err THEN acc
    ELSE StripActionTaskLoop(
             tasks_path,
             IntoIdx(acc.v, i, StripActionTask(tasks_path \o <<I(i - 1)>>, acc.v[i],
                                               task_context, dec, acc.st)),
             i + 1, task_context, dec)

(* lines 175-271: the tasks of the runbook of an action; a is the runbook
   after line 169 *)
StripActionRunbookTasks(runbook_path, a, var_runbook_context, dec) ==
    IF a.st.err THEN a
    ELSE IntoField(a.v, "task_definition_list",
             StripActionTaskLoop(
                 runbook_path \o <<K("task_definition_list")>>,
                 Res(Get(a.v, "task_definition_list", <<>>), a.st), 1,
                 var_runbook_context \o "." \o a.v.name \o ".task_definition_list",
                 dec))

(* lines 169-271: an action with a non-empty runbook *)
StripActionRunbook(runbook_path, runbook, var_runbook_context, dec, st) ==
    StripActionRunbookTasks(
        runbook_path,
        strip_entity_secret_variables(runbook_path, runbook, "variable_list",
                                      var_runbook_context, dec, st),
        var_runbook_context, dec)

(* lines 163-173 for the action at position i: its runbook stripped and put
   back into the action *)
StripAction(path_list, action, i, context, dec, st) ==
    IntoField(action, "runbook",
        StripActionRunbook(
            path_list \o <<K("action_list"), I(i - 1), K("runbook")>>,
            action.runbook,
            context \o "." \o action.name \o ".runbook", dec, st))

(* the loop of line 162, from the action at position i (1-based) on; at an
   action whose runbook is empty or missing, line 168 returns from the
   function, so the actions after it are not visited *)
RECURSIVE StripActionLoop(_, _, _, _, _)
StripActionLoop(path_list, acc, i, context, dec) ==
    IF i > Len(acc.v) \/ acc.st.err THEN acc
    ELSE IF ~NonEmpty(Get(acc.v[i], "runbook", EmptyDict)) THEN acc
    ELSE StripActionLoop(
             path_list,
             IntoIdx(acc.v, i, StripAction(path_list, acc.v[i], i, context, dec,
                                           acc.st)),
             i + 1, context, dec)

strip_action_secret_variables(path_list, obj, dec, st) ==
    IF st.err THEN Res(obj, st)
    ELSE IF ~Has(obj, "name") THEN Res(obj, Raise(st))    \* obj["name"]: KeyError
    ELSE IntoField(obj, "action_list",
             StripActionLoop(
                 path_list, Res(Get(obj, "action_list", <<>>), st), 1,
                 path_list[1].s \o "." \o obj.name \o ".action_list", dec))

----------------------------------------------------------------------------
(* strip_authentication_secret_variables *)

AuthPath == <<K("authentication"), K("basic_auth"), K("password")>>
ObjAuth(obj) == Get(obj, "authentication", EmptyDict)
ObjPassword(obj) == Get(ObjAuth(obj), "password", EmptyDict)

strip_authentication_secret_variables(path_list, obj, context, dec, st) ==
    IF st.err \/ Get(ObjAuth(obj), "auth_type", NONE) # "basic" THEN Res(obj, st)
    ELSE IF is_secret_modified(
                get_secrets_from_context(
                    dec, context \o "." \o Get(obj, "name", "") \o ".basic_auth"),
                Get(ObjPassword(obj), "name", NONE),
                Get(ObjPassword(obj), "value", NONE))
    THEN IF ~Has(ObjAuth(obj), "password") \/ ~Has(ObjPassword(obj), "value")
         THEN Res(obj, Raise(st))                         \* KeyError
         ELSE Res([obj EXCEPT !.authentication.password = AuthPlaceholder],
                  AddSecret(st, SecretVar(path_list \o AuthPath,
                                          ObjPassword(obj).value,
                                          Get(ObjPassword(obj), "name", NONE))))
    ELSE IF ~Has(ObjAuth(obj), "password")
    THEN Res(obj, Raise(st))                              \* None.get: AttributeError
    ELSE IF Truthy(Get(ObjPassword(obj), "value", NONE))
    THEN Res(obj, AddNotStripped(st, NotStripped(path_list \o AuthPath,
                                                 ObjPassword(obj).value)))
    ELSE Res(obj, st)

----------------------------------------------------------------------------
(* strip_runbook_secret_variables *)

(* lines 280-301: path_list for the task at task_idx (0-based) *)
RunbookTaskPath(original_path_list, task_idx, task) ==
    (IF Get(task, "type", NONE) # "RT_OPERATION"
        /\ Get(TaskAuth(task), "auth_type", NONE) = "basic"
     THEN original_path_list \o <<K("runbook")>>
     ELSE original_path_list)
    \o <<K("task_definition_list"), I(task_idx), K("attrs")>>

(* lines 308-315: the headers of an HTTP task; a is task.attrs after line 304 *)
StripRunbookTaskHeaders(path_list, a, var_task_context, dec) ==
    IF a.st.err \/ Get(a.v, "headers", <<>>) = <<>> THEN a
    ELSE strip_entity_secret_variables(path_list, a.v, "headers",
                                       var_task_context \o ".headers", dec, a.st)

(* lines 280-315: one task of the task_definition_list of the object *)
StripRunbookTask(original_path_list, task_idx, task, context, dec, st) ==
    IF Get(task, "type", NONE) = "RT_OPERATION"
    THEN IF ~Has(task, "attrs") THEN Res(task, Raise(st))
         ELSE IntoField(task, "attrs",
                  strip_entity_secret_variables(
                      RunbookTaskPath(original_path_list, task_idx, task),
                      task.attrs, "inarg_list", "", dec, st))
    ELSE IF Get(task, "type", NONE) # "HTTP" THEN Res(task, st)
    ELSE IntoField(task, "attrs",
             StripRunbookTaskHeaders(
                 RunbookTaskPath(original_path_list, task_idx, task),
                 strip_authentication_secret_variables(
                     RunbookTaskPath(original_path_list, task_idx, task),
                     Get(task, "attrs", EmptyDict),
                     context \o "." \o task.name, dec, st),
                 context \o "." \o task.name, dec))

RECURSIVE StripRunbookLoop(_, _, _, _, _)
StripRunbookLoop(original_path_list, acc, i, context, dec) ==
    IF i > Len(acc.v) \/ acc.st.err THEN acc
    ELSE StripRunbookLoop(
             original_path_list,
             IntoIdx(acc.v, i, StripRunbookTask(original_path_list, i - 1, acc.v[i],
                                                context, dec, acc.st)),
             i + 1, context, dec)

strip_runbook_secret_variables(path_list, obj, dec, st) ==
    IF st.err THEN Res(obj, st)
    ELSE IF ~Has(obj, "name") THEN Res(obj, Raise(st))    \* obj["name"]: KeyError
    ELSE IntoField(obj, "task_definition_list",
             StripRunbookLoop(
                 path_list, Res(Get(obj, "task_definition_list", <<>>), st), 1,
                 path_list[1].s \o "." \o obj.name \o ".task_definition_list", dec))

----------------------------------------------------------------------------
(* strip_all_secret_variables: lines 350-353, each on the object as the line
   before left it *)

StripAllActions(path_list, a, dec) ==
    strip_action_secret_variables(path_list, a.v, dec, a.st)
StripAllRunbook(path_list, b, dec) ==
    strip_runbook_secret_variables(path_list, b.v, dec, b.st)
StripAllAuthentication(path_list, c, dec) ==
    strip_authentication_secret_variables(path_list, c.v, path_list[1].s, dec, c.st)

strip_all_secret_variables(path_list, obj, dec, st) ==
    StripAllAuthentication(path_list,
        StripAllRunbook(path_list,
            StripAllActions(path_list,
                strip_entity_secret_variables(path_list, obj, "variable_list",
                                              path_list[1].s, dec, st),
                dec),
            dec),
        dec)

----------------------------------------------------------------------------
(* strip_secrets *)

(* lines 64-74: one credential; acc is the list of credentials with
   secret_map as it is when the loop reaches position i *)
StripCred(acc, i, filtered) ==
    IF is_secret_modified(filtered, acc.l[i].name, acc.l[i].secret.value)
    THEN [l |-> SetIdx(acc.l, i, Put(Pop(acc.l[i], "secret"), "secret",
                                     CredPlaceholder)),
          sm |-> Put(acc.sm, acc.l[i].name, acc.l[i].secret)]
    ELSE acc

RECURSIVE StripCredLoop(_, _, _)
StripCredLoop(acc, i, filtered) ==
    IF i > Len(acc.l) THEN acc
    ELSE StripCredLoop(StripCred(acc, i, filtered), i + 1, filtered)

(* lines 58-74; c is what the loop over the credentials gives *)
PutCreds(res, c) ==
    [res |-> IF Has(res, "credential_definition_list")
             THEN Put(res, "credential_definition_list", c.l) ELSE res,
     sm |-> c.sm]

StripCreds(res, sm, dec) ==
    PutCreds(res,
        StripCredLoop([l |-> Get(res, "credential_definition_list", <<>>),
                       sm |-> sm],
                      1,
                      get_secrets_from_context(dec, "credential_definition_list")))

(* lines 76-88: the basic authentication of an HTTP endpoint; w is the
   payload and secret_map after the credentials *)
StripEndpointAuth(w, dec) ==
    IF Get(Get(w.res, "authentication", EmptyDict), "type", NONE) = "basic"
       /\ is_secret_modified(get_secrets_from_context(dec, "authentication"),
                             w.res.authentication.username,
                             w.res.authentication.password)
    THEN [res |-> [w.res EXCEPT !.authentication.password = EndpointAuthPlaceholder],
          sm |-> Put(w.sm, w.res.authentication.username,
                     w.res.authentication.password)]
    ELSE w

(* lines 355-357: the objects of one object list, from position i on *)
RECURSIVE StripObjLoop(_, _, _, _)
StripObjLoop(object_list, acc, i, dec) ==
    IF i > Len(acc.v) \/ acc.st.err THEN acc
    ELSE StripObjLoop(
             object_list,
             IntoIdx(acc.v, i,
                     strip_all_secret_variables(<<K(object_list), I(i - 1)>>,
                                                acc.v[i], dec, acc.st)),
             i + 1, dec)

(* lines 355-357: the object lists, from position j on; acc is the payload *)
RECURSIVE StripObjectLists(_, _, _, _)
StripObjectLists(acc, lists, j, dec) ==
    IF j > Len(lists) \/ acc.st.err THEN acc
    ELSE StripObjectLists(
             IntoField(acc.v, lists[j],
                       StripObjLoop(lists[j],
                                    Res(Get(acc.v, lists[j], <<>>), acc.st), 1, dec)),
             lists, j + 1, dec)

(* lines 368-369 *)
RECURSIVE StripObjects(_, _, _, _)
StripObjects(acc, objs, j, dec) ==
    IF j > Len(objs) \/ acc.st.err THEN acc
    ELSE StripObjects(
             IntoField(acc.v, objs[j],
                       strip_all_secret_variables(<<K(objs[j])>>,
                                                  Get(acc.v, objs[j], EmptyDict),
                                                  dec, acc.st)),
             objs, j + 1, dec)

(* lines 355-369; w is the payload and secret_map after lines 58-88 *)
StripVariables(w, sv, lists, objs, dec, ns) ==
    [sm |-> w.sm,
     walk |-> StripObjects(
                  StripObjectLists(Res(w.res, Walk(sv, ns, FALSE)), lists, 1, dec),
                  objs, 1, dec)]

(* the whole function: the payload, secret_map and the two lists after it,
   and whether it raised *)
StripOutcome(o) ==
    [resources |-> o.walk.v, secret_map |-> o.sm,
     secret_variables |-> o.walk.st.sv,
     not_stripped_secrets |-> o.walk.st.ns, raised |-> o.walk.st.err]

strip_secrets(res, sm, sv, lists, objs, dec, ns) ==
    StripOutcome(
        StripVariables(StripEndpointAuth(StripCreds(res, sm, dec), dec),
                       sv, lists, objs, dec, ns))

----------------------------------------------------------------------------
(* patch_secrets *)

(* The JSON type of the value under a key of the payload. *)
ListKeys == {"credential_definition_list", "substrate_definition_list",
             "variable_list", "action_list", "task_definition_list",
             "headers", "inarg_list"}
LeafKeys == {"name", "type", "value", "username", "auth_type",
             "is_secret_modified", "secret_reference"}
KindOf(key) == IF key \in ListKeys THEN "list"
               ELSE IF key \in LeafKeys THEN "leaf" ELSE "dict"

(* what following a path gave: "set" when every element was followed and
   the update was made, "skip" at the break of the loop, "raise" on a
   TypeError or IndexError *)
Followed(r, node) == [r |-> r, node |-> node]
UnderKey(node, k, c) == Followed(c.r, Put(node, k, c.node))
UnderIdx(node, i, c) == Followed(c.r, SetIdx(node, i, c.node))

(* lines 483-489 and 495-502: follow path from position i, then set attrs
   and, for a secret variable, value *)
RECURSIVE PatchAt(_, _, _, _, _, _, _)
PatchAt(node, kind, path, i, attrs, with_value, value) ==
    IF i > Len(path)
    THEN IF kind = "dict"
         THEN Followed("set", IF with_value
                              THEN Put(Put(node, "attrs", attrs), "value", value)
                              ELSE Put(node, "attrs", attrs))
         ELSE Followed("raise", node)
    ELSE IF kind = "dict"
    THEN IF path[i].t = "key" /\ path[i].s \in DOMAIN node
         THEN UnderKey(node, path[i].s,
                       PatchAt(node[path[i].s], KindOf(path[i].s), path, i + 1,
                               attrs, with_value, value))
         ELSE Followed("skip", node)
    ELSE IF kind = "list" /\ path[i].t = "idx" /\ path[i].i < Len(node)
    THEN UnderIdx(node, path[i].i + 1,
                  PatchAt(node[path[i].i + 1], "dict", path, i + 1,
                          attrs, with_value, value))
    ELSE Followed("raise", node)

Patched(c) == [res |-> c.node, raised |-> c.r = "raise"]

(* lines 482-489 *)
RECURSIVE PatchExisting(_, _, _)
PatchExisting(p, existing_secrets, i) ==
    IF i > Len(existing_secrets) \/ p.raised THEN p
    ELSE PatchExisting(
             Patched(PatchAt(p.res, "dict", existing_secrets[i].path, 1,
                             [is_secret_modified |-> FALSE], FALSE, NONE)),
             existing_secrets, i + 1)

(* lines 491-502 *)
RECURSIVE PatchVariables(_, _, _)
PatchVariables(p, sv, i) ==
    IF i > Len(sv) \/ p.raised THEN p
    ELSE PatchVariables(
             Patched(PatchAt(p.res, "dict", sv[i].path, 1,
                             [is_secret_modified |-> TRUE], TRUE, sv[i].value)),
             sv, i + 1)

(* the detached secret not put back *)
PatchCredNotRestored(cred, sm) == cred

(* lines 469-473 *)
PatchCred(cred, sm) ==
    IF cred.name \in DOMAIN sm THEN Put(cred, "secret", sm[cred.name]) ELSE cred

PatchCreds(res, sm) ==
    IF Has(res, "credential_definition_list")
    THEN Put(res, "credential_definition_list",
             [i \in 1..Len(res.credential_definition_list) |->
                  PatchCred(res.credential_definition_list[i], sm)])
    ELSE res

(* lines 476-479 *)
PatchEndpointAuth(res, sm) ==
    IF Get(Get(res, "authentication", EmptyDict), "username", "") # ""
       /\ res.authentication.username \in DOMAIN sm
    THEN [res EXCEPT !.authentication =
                         Put(@, "password", sm[res.authentication.username])]
    ELSE res

patch_secrets(res, sm, sv, existing_secrets) ==
    PatchVariables(
        PatchExisting([res |-> PatchEndpointAuth(PatchCreds(res, sm), sm),
                       raised |-> FALSE],
                      existing_secrets, 1),
        sv, 1)

----------------------------------------------------------------------------
(* strip_vmware_secrets *)

WindowsDataPath ==
    <<K("create_spec"), K("resources"), K("guest_customization"),
      K("windows_data")>>
vmware_secrets_context == "create_spec.resources.guest_customization.windows_data"

(* lines 396-417: the admin password; wd is windows_data *)
StripAdminPassword(path, wd, dec, st) ==
    IF ~Has(wd, "password") THEN Res(wd, Raise(st))       \* obj["password"]: KeyError
    ELSE IF ~NonEmpty(wd.password) THEN Res(wd, st)
    ELSE IF is_secret_modified(
                get_secrets_from_context(
                    dec, vmware_secrets_context \o "windows_data" \o ".password."
                             \o Get(wd.password, "name", "")),
                Get(wd.password, "name", ""), Get(wd.password, "value", NONE))
    THEN Res([wd EXCEPT !.password =
                            Put(Pop(@, "value"), "attrs", VarPlaceholderAttrs)],
             AddSecret(st, SecretVar(path \o <<K("password")>>,
                                     Get(wd.password, "value", ""),
                                     Get(wd.password, "name", ""))))
    ELSE Res(wd, AddNotStripped(st, NotStripped(path \o <<K("password")>>,
                                                Get(wd.password, "value", ""))))

(* lines 419-454: the domain password; a is windows_data after the admin
   password *)
StripDomainPassword(path, a, dec) ==
    IF a.st.err \/ Get(a.v, "is_domain", FALSE) = FALSE
       \/ ~NonEmpty(Get(a.v, "domain_password", EmptyDict))
    THEN a
    ELSE IF is_secret_modified(
                get_secrets_from_context(
                    dec, vmware_secrets_context \o "windows_data"
                             \o ".domain_password."
                             \o Get(a.v.domain_password, "name", "")),
                Get(a.v.domain_password, "name", ""),
                Get(a.v.domain_password, "value", NONE))
    THEN IF ~Has(a.v.domain_password, "name")
         THEN Res([a.v EXCEPT !.domain_password = Pop(@, "value")], Raise(a.st))
         ELSE Res([a.v EXCEPT !.domain_password =
                                  Put(Pop(@, "value"), "attrs", VarPlaceholderAttrs)],
                  AddSecret(a.st, SecretVar(path \o <<K("domain_password")>>,
                                            Get(a.v.domain_password, "value", ""),
                                            a.v.domain_password.name)))
    ELSE Res([a.v EXCEPT !.domain_password = Pop(@, "value")],
             AddNotStripped(a.st,
                 NotStripped(path \o <<K("domain_password")>>,
                             Get(a.v.domain_password, "value", ""))))

GuestCustomization(obj) == obj.create_spec.resources.guest_customization

(* the object, the caller's path_list and the two lists after the call *)
VmwareOutcome(path, obj, r) ==
    [obj |-> [obj EXCEPT !.create_spec.resources.guest_customization.windows_data
                             = r.v],
     path_list |-> path, secret_variables |-> r.st.sv,
     not_stripped_secrets |-> r.st.ns, raised |-> r.st.err]

strip_vmware_secrets(path, obj, sv, dec, ns) ==
    IF ~NonEmpty(Get(GuestCustomization(obj), "windows_data", EmptyDict))
    THEN [obj |-> obj, path_list |-> path \o SubSeq(WindowsDataPath, 1, 3),
          secret_variables |-> sv, not_stripped_secrets |-> ns, raised |-> FALSE]
    ELSE VmwareOutcome(
             path \o WindowsDataPath, obj,
             StripDomainPassword(
                 path \o WindowsDataPath,
                 StripAdminPassword(path \o WindowsDataPath,
                                    GuestCustomization(obj).windows_data, dec,
                                    Walk(sv, ns, FALSE)),
                 dec))

----------------------------------------------------------------------------
(* The payloads handed to strip_secrets *)

MaxVars == 2       \* variables of a variable_list
MaxActions == 2    \* actions of an object
MaxTasks == 2      \* tasks of a task_definition_list
MaxCreds == 2      \* credentials of a payload
MaxObjs == 2       \* objects of an object list

SeqsUpTo(S, n) == UNION {[1..m -> S] : m \in 0..n}

SDL == "substrate_definition_list"

SecretV(n, v) == [name |-> n, type |-> "SECRET", value |-> v]
LocalV == [name |-> "v3", type |-> "LOCAL", value |-> "x"]
BasicAuth(u, pw) ==
    [auth_type |-> "basic",
     basic_auth |-> [username |-> u, password |-> [value |-> pw]]]
(* a dynamic variable: its value comes from an HTTP task with basic auth *)
DynamicV ==
    [name |-> "v4", type |-> "LOCAL", value |-> "",
     options |-> [attrs |-> [authentication |-> BasicAuth("u1", "pw1")]]]

VarChoices == {SecretV("v1", "s1"), SecretV("v1", "s2"), SecretV("v2", ""),
               LocalV, DynamicV}

SecretHeader == [name |-> "h1", type |-> "SECRET", value |-> "hs"]

(* tasks: HTTP with basic auth as the runbook of an action carries it, HTTP
   with the password directly under authentication, HTTP without
   authentication, an RT_OPERATION with inargs, and a script *)
HttpNested == [name |-> "t1", type |-> "HTTP",
               attrs |-> [authentication |-> BasicAuth("u1", "pw1"),
                          headers |-> <<SecretHeader>>]]
HttpFlat == [name |-> "t2", type |-> "HTTP",
             attrs |-> [authentication |->
                            [auth_type |-> "basic",
                             password |-> [name |-> "p1", value |-> "pw1"]],
                        headers |-> <<SecretHeader>>]]
HttpNoAuth == [name |-> "t3", type |-> "HTTP",
               attrs |-> [headers |-> <<SecretHeader>>]]
RtOperation == [name |-> "t4", type |-> "RT_OPERATION",
                attrs |-> [inarg_list |-> <<SecretV("v1", "s1")>>]]
ExecTask == [name |-> "t5", type |-> "EXEC", attrs |-> EmptyDict]

ObjTaskChoices == {HttpNested, HttpFlat, HttpNoAuth, RtOperation, ExecTask}

Runbook(vars, tasks) ==
    [name |-> "rb", variable_list |-> vars, task_definition_list |-> tasks]
Action(n, runbook) == [name |-> n, runbook |-> runbook]

ActionChoices ==
    {Action("a1", EmptyDict),
     Action("a1", Runbook(<<SecretV("v1", "s1")>>, <<>>)),
     Action("a2", Runbook(<<SecretV("v2", "s2")>>, <<HttpNested>>)),
     Action("a2", Runbook(<<>>, <<HttpNoAuth, ExecTask>>))}

Obj(n, vars, actions, tasks) ==
    [name |-> n, variable_list |-> vars, action_list |-> actions,
     task_definition_list |-> tasks]
FlatAuth == [auth_type |-> "basic", password |-> [name |-> "p1", value |-> "pw1"]]

Cred(n, v) == [name |-> n, secret |-> [value |-> v]]
CredChoices == {Cred(n, v) : n \in {"c1", "c2"}, v \in {"s1", "s2"}}
EndpointAuth(u) ==
    [type |-> "basic", username |-> u, password |-> [value |-> "pw1"]]

Payload(creds, objs) ==
    [credential_definition_list |-> creds, substrate_definition_list |-> objs]

OneCred == <<Cred("c1", "s1")>>
OneVar == <<SecretV("v1", "s1")>>

(* the secrets recorded when the payload was decompiled *)
ObjContext == SDL \o ".o1"
DecRecorded ==
    [c \in {"credential_definition_list",
            ObjContext \o ".variable_list",
            ObjContext \o ".action_list.a1.runbook.rb.variable_list",
            ObjContext \o ".action_list.a2.runbook.rb.task_definition_list.t1.headers",
            ObjContext \o ".task_definition_list.t3.headers"}
        |-> [n \in {"c1", "v1", "v2", "h1"} |->
                 IF n = "h1" THEN "hs" ELSE IF n = "v2" THEN "" ELSE "s1"]]
DecBasicAuth ==
    [c \in {ObjContext \o ".action_list.a2.runbook.rb.task_definition_list.t1.basic_auth",
            ObjContext \o ".task_definition_list.t2..basic_auth",
            SDL \o ".o1.basic_auth"}
        |-> [n \in {"u1", "p1"} |-> "pw1"]]
DecEndpoint ==
    [c \in {"authentication"} |-> [n \in {"u1"} |-> [value |-> "pw1"]]]
DecChoices == {EmptyDict, DecRecorded, DecBasicAuth @@ DecEndpoint}

(* Each family varies one part of the payload over all its shapes and keeps
   the rest at one credential and one secret variable. *)
VarInputs ==
    {[res |-> Payload(OneCred, <<Obj("o1", vl, <<>>, <<>>)>>), objects |-> <<>>]
        : vl \in SeqsUpTo(VarChoices, MaxVars)}
ActionInputs ==
    {[res |-> Payload(OneCred, <<Obj("o1", OneVar, al, <<>>)>>), objects |-> <<>>]
        : al \in SeqsUpTo(ActionChoices, MaxActions)}
TaskInputs ==
    {[res |-> Payload(OneCred, <<Obj("o1", OneVar, <<>>, tl)>>), objects |-> <<>>]
        : tl \in SeqsUpTo(ObjTaskChoices, MaxTasks)}
CredInputs ==
    {[res |-> Payload(cl, <<Obj("o1", OneVar, <<>>, <<>>)>>), objects |-> <<>>]
        : cl \in SeqsUpTo(CredChoices, MaxCreds)}
    \cup
    {[res |-> Put(Payload(cl, <<>>), "authentication", EndpointAuth(u)),
      objects |-> <<>>]
        : cl \in SeqsUpTo(CredChoices, MaxCreds), u \in {"c1", "u1"}}
ObjChoices ==
    {Obj("o1", OneVar, <<>>, <<>>),
     Obj("o2", <<SecretV("v2", "s2"), LocalV>>,
         <<Action("a1", Runbook(OneVar, <<>>))>>, <<RtOperation>>),
     Put(Obj("o1", OneVar, <<>>, <<>>), "authentication", FlatAuth)}
ObjInputs ==
    {[res |-> Payload(OneCred, ol), objects |-> <<>>]
        : ol \in SeqsUpTo(ObjChoices, MaxObjs)}
    \cup
    {[res |-> Put(Payload(OneCred, <<>>), "runbook", o), objects |-> <<"runbook">>]
        : o \in ObjChoices}
    \cup
    {[res |-> Payload(OneCred, <<>>), objects |-> <<"runbook">>]}

StripInputs == VarInputs \cup ActionInputs \cup TaskInputs \cup CredInputs
               \cup ObjInputs

----------------------------------------------------------------------------
(* strip_secrets followed by patch_secrets *)

----------------------------------------------------------------------------
(* The commands that are run one call at a time: create_acp, delete_acp,
   AhvVmProvider.get_api_obj, update_vm_image_config, AhvNew.categories and
   vm_power_action_target_map *)

(* main.py:115, the filter_criteria of AhvNew.CATEGORIES_PAYLOAD as the class
   is defined *)
BaseFilterCriteria ==
    "name!=CalmApplication;name!=CalmDeployment;name!=CalmService;name!=CalmPackage;name!=CalmProject;name!=CalmUser;name!=CalmVmUniqueIdentifier;name!=CalmClusterUuid"

NotCalled == [cmd |-> "none"]

(* none of these commands is running and none has run *)
NoCall ==
    /\ call = NotCalled
    /\ outcome = NotCalled
    /\ CATEGORIES_PAYLOAD = [filter_criteria |-> BaseFilterCriteria]

Init ==
    /\ \E in \in StripInputs :
          /\ resources = in.res
          /\ orig = in.res
          /\ objects = in.objects
    /\ object_lists = <<SDL>>
    /\ decompiled_secrets \in DecChoices
    /\ secret_map = EmptyDict
    /\ secret_variables = <<>>
    /\ not_stripped_secrets = <<>>
    /\ caller_path_list = <<>>
    /\ pc = "start"
    /\ NoMarketplace
    /\ NoCall

(* the caller's objects after the call *)
StripDone(r) ==
    /\ resources' = r.resources
    /\ secret_map' = r.secret_map
    /\ secret_variables' = r.secret_variables
    /\ not_stripped_secrets' = r.not_stripped_secrets
    /\ pc' = IF r.raised THEN "raised" ELSE "stripped"

PatchDone(p) ==
    /\ resources' = p.res
    /\ pc' = IF p.raised THEN "raised" ELSE "patched"

Strip ==
    /\ pc = "start"
    /\ StripDone(strip_secrets(resources, secret_map, secret_variables,
                               object_lists, objects, decompiled_secrets,
                               not_stripped_secrets))
    /\ UNCHANGED mpiVars
    /\ UNCHANGED <<object_lists, objects, orig, decompiled_secrets,
                   caller_path_list>>
    /\ UNCHANGED cmdVars

(* patch_secrets is called with existing_secrets left at its default or with
   the list strip_secrets filled *)
Patch ==
    /\ pc = "stripped"
    /\ \E existing_secrets \in {<<>>, not_stripped_secrets} :
          PatchDone(patch_secrets(resources, secret_map, secret_variables,
                                  existing_secrets))
    /\ UNCHANGED mpiVars
    /\ UNCHANGED <<object_lists, objects, orig, secret_map, secret_variables,
                   not_stripped_secrets, decompiled_secrets, caller_path_list>>
    /\ UNCHANGED cmdVars

Next == Strip \/ Patch

Spec == Init /\ [][Next]_allVars

----------------------------------------------------------------------------
(* What the claims speak of *)

(* the objects object_lists and objects name, each with its path_list *)
RECURSIVE ListEntries(_, _, _)
ListEntries(res, lists, j) ==
    IF j > Len(lists) THEN <<>>
    ELSE [i \in 1..Len(Get(res, lists[j], <<>>)) |->
              [path |-> <<K(lists[j]), I(i - 1)>>, obj |-> res[lists[j]][i]]]
         \o ListEntries(res, lists, j + 1)

RECURSIVE ObjEntries(_, _, _)
ObjEntries(res, objs, j) ==
    IF j > Len(objs) THEN <<>>
    ELSE (IF Has(res, objs[j])
          THEN <<[path |-> <<K(objs[j])>>, obj |-> res[objs[j]]]>> ELSE <<>>)
         \o ObjEntries(res, objs, j + 1)

Entries(res) == ListEntries(res, object_lists, 1) \o ObjEntries(res, objects, 1)

Creds(res) == Get(res, "credential_definition_list", <<>>)
VarsOf(obj) == Get(obj, "variable_list", <<>>)
ActionsOf(obj) == Get(obj, "action_list", <<>>)
RunbookOf(action) == Get(action, "runbook", EmptyDict)
IsSecret(v) == v.type = "SECRET"

Detached(v) == ~Has(v, "value") /\ Has(v, "attrs") /\ v.attrs = VarPlaceholderAttrs
Reattached(v, before) ==
    /\ Has(v, "value") /\ v.value = before.value
    /\ Has(v, "attrs") /\ v.attrs = [is_secret_modified |-> TRUE]

RunbookPath(e, a) == e.path \o <<K("action_list"), I(a - 1), K("runbook")>>
VarPath(path_list, j) == path_list \o <<K("variable_list"), I(j - 1)>>

(* C1: with empty decompiled_secrets, strip_secrets followed by patch_secrets
   gives every SECRET variable of the variable_list of each named object and
   of each action runbook the value it had before, with
   attrs = {is_secret_modified: True}. *)
C1_SecretVariablesRoundTrip ==
    (pc = "patched" /\ decompiled_secrets = EmptyDict) =>
        \A e \in DOMAIN Entries(orig) :
            /\ \A j \in DOMAIN VarsOf(Entries(orig)[e].obj) :
                   IsSecret(VarsOf(Entries(orig)[e].obj)[j]) =>
                       Reattached(VarsOf(Entries(resources)[e].obj)[j],
                                  VarsOf(Entries(orig)[e].obj)[j])
            /\ \A a \in DOMAIN ActionsOf(Entries(orig)[e].obj) :
                   \A j \in DOMAIN VarsOf(RunbookOf(ActionsOf(Entries(orig)[e].obj)[a])) :
                       IsSecret(VarsOf(RunbookOf(ActionsOf(Entries(orig)[e].obj)[a]))[j]) =>
                           Reattached(
                               VarsOf(RunbookOf(ActionsOf(Entries(resources)[e].obj)[a]))[j],
                               VarsOf(RunbookOf(ActionsOf(Entries(orig)[e].obj)[a]))[j])

(* C2: after strip_secrets with empty decompiled_secrets every credential's
   secret is the placeholder, and every SECRET variable of the variable_list
   of a named object has no value key and the placeholder attrs. *)
C2_NoSecretLeft ==
    (pc = "stripped" /\ decompiled_secrets = EmptyDict) =>
        /\ \A i \in DOMAIN Creds(resources) :
               Creds(resources)[i].secret = CredPlaceholder
        /\ \A e \in DOMAIN Entries(resources) :
               \A j \in DOMAIN VarsOf(Entries(resources)[e].obj) :
                   IsSecret(VarsOf(Entries(resources)[e].obj)[j]) =>
                       Detached(VarsOf(Entries(resources)[e].obj)[j])

C2_Witness ==
    /\ pc = "stripped" /\ decompiled_secrets = EmptyDict
    /\ Len(Creds(orig)) = 2
    /\ Creds(orig)[1].secret.value # Creds(orig)[2].secret.value
    /\ \E e \in DOMAIN Entries(orig) :
           /\ Len(VarsOf(Entries(orig)[e].obj)) >= 1
           /\ IsSecret(VarsOf(Entries(orig)[e].obj)[1])
           /\ VarsOf(Entries(orig)[e].obj)[1].value = "s1"

(* The value a path leads to, followed key by key from the root. *)
RECURSIVE Lookup(_, _, _, _)
Lookup(node, kind, path, i) ==
    IF i > Len(path) THEN [ok |-> kind = "dict", node |-> node]
    ELSE IF kind = "dict" /\ path[i].t = "key" /\ path[i].s \in DOMAIN node
    THEN Lookup(node[path[i].s], KindOf(path[i].s), path, i + 1)
    ELSE IF kind = "list" /\ path[i].t = "idx" /\ path[i].i < Len(node)
    THEN Lookup(node[path[i].i + 1], "dict", path, i + 1)
    ELSE [ok |-> FALSE, node |-> EmptyDict]

(* a mapping strip_secrets took the value from *)
HoldsPlaceholder(node) ==
    /\ Has(node, "attrs") /\ Has(node.attrs, "is_secret_modified")
    /\ node.attrs.is_secret_modified = FALSE
    /\ Get(node, "value", NONE) = NONE

(* C3: every path strip_secrets records in secret_variables resolves, key by
   key from the root of resources, to the mapping the secret value was
   detached from. *)
C3_PathsResolve ==
    pc = "stripped" =>
        \A i \in DOMAIN secret_variables :
            /\ Lookup(resources, "dict", secret_variables[i].path, 1).ok
            /\ HoldsPlaceholder(
                   Lookup(resources, "dict", secret_variables[i].path, 1).node)

(* the secrets recorded for a variable_list, and the rule of the claim *)
Recorded(context) ==
    IF context \in DOMAIN decompiled_secrets THEN decompiled_secrets[context]
    ELSE EmptyDict
Modified(v, rec) == v.name \notin DOMAIN rec \/ rec[v.name] # v.value
ObjVarContext(e) == e.path[1].s \o "." \o e.obj.name \o ".variable_list"
RunbookVarContext(e, action) ==
    e.path[1].s \o "." \o e.obj.name \o ".action_list." \o action.name
        \o ".runbook." \o action.runbook.name \o ".variable_list"

VarRule(before, after, path, rec) ==
    IF Modified(before, rec)
    THEN /\ Detached(after)
         /\ \E i \in DOMAIN secret_variables :
                secret_variables[i] = SecretVar(path, before.value, before.name)
         /\ \A i \in DOMAIN not_stripped_secrets :
                not_stripped_secrets[i].path # path
    ELSE /\ after = before
         /\ before.value # "" =>
                \E i \in DOMAIN not_stripped_secrets :
                    not_stripped_secrets[i] = NotStripped(path, before.value)
         /\ \A i \in DOMAIN secret_variables : secret_variables[i].path # path

(* the actions whose runbook the walk of an object reaches *)
Reached(actions, a) == \A k \in 1..a : NonEmpty(RunbookOf(actions[k]))

(* C4: a SECRET variable the walk examines (in the variable_list of a named
   object or of an action runbook it reaches) is detached if and only if its
   name is absent from the secrets recorded for its context or the recorded
   value differs from its value; otherwise it is left as it was and, when
   its value is non-empty, is appended with its path to
   not_stripped_secrets. *)
C4_DetachedIffModified ==
    pc = "stripped" =>
        \A e \in DOMAIN Entries(orig) :
            /\ \A j \in DOMAIN VarsOf(Entries(orig)[e].obj) :
                   IsSecret(VarsOf(Entries(orig)[e].obj)[j]) =>
                       VarRule(VarsOf(Entries(orig)[e].obj)[j],
                               VarsOf(Entries(resources)[e].obj)[j],
                               VarPath(Entries(orig)[e].path, j),
                               Recorded(ObjVarContext(Entries(orig)[e])))
            /\ \A a \in DOMAIN ActionsOf(Entries(orig)[e].obj) :
                   Reached(ActionsOf(Entries(orig)[e].obj), a) =>
                   \A j \in DOMAIN VarsOf(RunbookOf(ActionsOf(Entries(orig)[e].obj)[a])) :
                       IsSecret(VarsOf(RunbookOf(ActionsOf(Entries(orig)[e].obj)[a]))[j]) =>
                           VarRule(
                               VarsOf(RunbookOf(ActionsOf(Entries(orig)[e].obj)[a]))[j],
                               VarsOf(RunbookOf(ActionsOf(Entries(resources)[e].obj)[a]))[j],
                               VarPath(RunbookPath(Entries(orig)[e], a), j),
                               Recorded(RunbookVarContext(
                                   Entries(orig)[e],
                                   ActionsOf(Entries(orig)[e].obj)[a])))

(* a variable_list with a secret that is recorded unchanged and kept, and
   one whose recorded value differs and is detached *)
C4_Witness ==
    /\ pc = "stripped"
    /\ \E e \in DOMAIN Entries(orig) :
           /\ Len(VarsOf(Entries(orig)[e].obj)) = 2
           /\ IsSecret(VarsOf(Entries(orig)[e].obj)[1])
           /\ IsSecret(VarsOf(Entries(orig)[e].obj)[2])
           /\ ~Modified(VarsOf(Entries(orig)[e].obj)[1],
                        Recorded(ObjVarContext(Entries(orig)[e])))
           /\ VarsOf(Entries(orig)[e].obj)[2].name
                  \in DOMAIN Recorded(ObjVarContext(Entries(orig)[e]))
           /\ Modified(VarsOf(Entries(orig)[e].obj)[2],
                       Recorded(ObjVarContext(Entries(orig)[e])))
           /\ Has(VarsOf(Entries(resources)[e].obj)[1], "value")
           /\ Detached(VarsOf(Entries(resources)[e].obj)[2])
    /\ Len(not_stripped_secrets) = 1

(* C5: for every named object and every action of its action_list with a
   non-empty runbook, the SECRET variables of that runbook are stripped,
   whether or not an earlier action has an empty runbook. *)
C5_EveryActionWalked ==
    (pc = "stripped" /\ decompiled_secrets = EmptyDict) =>
        \A e \in DOMAIN Entries(resources) :
            \A a \in DOMAIN ActionsOf(Entries(resources)[e].obj) :
                \A j \in DOMAIN VarsOf(RunbookOf(ActionsOf(Entries(resources)[e].obj)[a])) :
                    IsSecret(VarsOf(RunbookOf(ActionsOf(Entries(resources)[e].obj)[a]))[j])
                        => Detached(VarsOf(RunbookOf(
                               ActionsOf(Entries(resources)[e].obj)[a]))[j])

(* C6 as claimed: with empty decompiled_secrets, strip_secrets followed by
   patch_secrets leaves every credential, also of a list in which two
   credentials have the same name, with the secret it had before. *)
C6_CredentialsRoundTrip ==
    (pc = "patched" /\ decompiled_secrets = EmptyDict) =>
        \A i \in DOMAIN Creds(orig) :
            Creds(resources)[i].secret = Creds(orig)[i].secret

DistinctCredNames(res) ==
    /\ \A i, j \in DOMAIN Creds(res) :
           i # j => Creds(res)[i].name # Creds(res)[j].name
    /\ Get(Get(res, "authentication", EmptyDict), "type", NONE) = "basic" =>
           \A i \in DOMAIN Creds(res) :
               Creds(res)[i].name # res.authentication.username

(* C6 as amended: with empty decompiled_secrets and a credential_definition_list
   whose names are pairwise distinct and differ from the username of a basic
   authentication of the payload, strip_secrets followed by patch_secrets
   leaves every credential with the secret it had before. *)
C6_DistinctCredentialsRoundTrip ==
    (pc = "patched" /\ decompiled_secrets = EmptyDict /\ DistinctCredNames(orig)) =>
        \A i \in DOMAIN Creds(orig) :
            Creds(resources)[i].secret = Creds(orig)[i].secret

C6_Witness ==
    /\ pc = "patched" /\ decompiled_secrets = EmptyDict
    /\ DistinctCredNames(orig)
    /\ Len(Creds(orig)) = 2
    /\ Creds(orig)[1].secret.value # Creds(orig)[2].secret.value
    /\ Has(orig, "authentication")
    /\ DOMAIN secret_map = {"c1", "c2", "u1"}

----------------------------------------------------------------------------
(* strip_vmware_secrets on the create spec of a VMware substrate *)

Password(n, v) == [name |-> n, value |-> v]
AdminPasswords == {Password("ap", "a"), Password("ap", "b"), [name |-> "ap"]}
DomainPasswords == {Password("dp", "d"), Password("dp", "e"), [value |-> "d"]}

WindowsData ==
    {[password |-> p, is_domain |-> d] : p \in AdminPasswords, d \in BOOLEAN}
    \cup {[password |-> p, is_domain |-> d, domain_password |-> dp]
             : p \in AdminPasswords, d \in BOOLEAN, dp \in DomainPasswords}
    \cup {[is_domain |-> TRUE, domain_password |-> Password("dp", "d")]}

VmwareSpec(gc) == [create_spec |-> [resources |-> [guest_customization |-> gc]]]
VmwareInputs ==
    {VmwareSpec([windows_data |-> wd]) : wd \in WindowsData}
    \cup {VmwareSpec(EmptyDict), VmwareSpec([cloud_init |-> "x"])}

AdminContext == vmware_secrets_context \o "windows_data.password.ap"
DomainContext == vmware_secrets_context \o "windows_data.domain_password.dp"
VmwareDecChoices ==
    {[c \in C |-> IF c = AdminContext THEN [ap |-> "a"] ELSE [dp |-> "d"]]
        : C \in SUBSET {AdminContext, DomainContext}}

InitVmware ==
    /\ resources \in VmwareInputs
    /\ orig = resources
    /\ caller_path_list \in {<<K(SDL), I(0)>>, <<K(SDL), I(1)>>}
    /\ decompiled_secrets \in VmwareDecChoices
    /\ object_lists = <<>>
    /\ objects = <<>>
    /\ secret_map = EmptyDict
    /\ secret_variables = <<>>
    /\ not_stripped_secrets = <<>>
    /\ pc = "start"
    /\ NoMarketplace
    /\ NoCall

VmwareDone(r) ==
    /\ resources' = r.obj
    /\ caller_path_list' = r.path_list
    /\ secret_variables' = r.secret_variables
    /\ not_stripped_secrets' = r.not_stripped_secrets
    /\ pc' = IF r.raised THEN "raised" ELSE "stripped"

StripVmware ==
    /\ pc = "start"
    /\ VmwareDone(strip_vmware_secrets(caller_path_list, resources,
                                       secret_variables, decompiled_secrets,
                                       not_stripped_secrets))
    /\ UNCHANGED mpiVars
    /\ UNCHANGED <<object_lists, objects, orig, secret_map, decompiled_secrets>>
    /\ UNCHANGED cmdVars

NextVmware == StripVmware

SpecVmware == InitVmware /\ [][NextVmware]_allVars

WindowsDataOf(obj) == Get(GuestCustomization(obj), "windows_data", EmptyDict)

(* the claim's rule for the password under key k of windows_data, recorded
   in the context ctx *)
PasswordRule(k, ctx) ==
    IF Modified([name |-> Get(WindowsDataOf(orig)[k], "name", ""),
                 value |-> Get(WindowsDataOf(orig)[k], "value", NONE)],
                Recorded(ctx))
    THEN /\ ~Has(WindowsDataOf(resources)[k], "value")
         /\ WindowsDataOf(resources)[k].attrs = VarPlaceholderAttrs
    ELSE /\ WindowsDataOf(resources)[k] = WindowsDataOf(orig)[k]
         /\ \E i \in DOMAIN not_stripped_secrets :
                not_stripped_secrets[i] =
                    NotStripped(caller_path_list \o <<K(k)>>,
                                WindowsDataOf(orig)[k].value)

(* C7: in strip_vmware_secrets a Windows guest-customization password (the
   admin password or, when is_domain is set, domain_password) whose recorded
   value equals its value is left in the document unchanged and is recorded
   with its path in not_stripped_secrets; only a modified password has its
   value removed and the placeholder attrs set. *)
C7_UnmodifiedPasswordKept ==
    pc = "stripped" =>
        /\ Has(WindowsDataOf(orig), "password") =>
               PasswordRule("password", AdminContext)
        /\ (Get(WindowsDataOf(orig), "is_domain", FALSE)
              /\ Has(WindowsDataOf(orig), "domain_password")) =>
               PasswordRule("domain_password", DomainContext)

----------------------------------------------------------------------------
(* The marketplace commands of mpis.py and the server calls they make:     *)
(* market_place.list / read / create / update / delete and the groups call *)

Names == {"n1", "n2"}
Versions == {"v1", "v2"}
AppStates == {"PENDING", "ACCEPTED", "REJECTED", "PUBLISHED"}
AppFamilies == {"c1"}                 \* what get_app_family_list returns
ProjectArgs == {<<>>, <<"p1">>}

Present(its) == {u \in DOMAIN its : its[u].app_state # "NONE"}

(* the order of "group_member_sort_attribute": "version" *)
VersionRank(v) == IF v = "v1" THEN 1 ELSE 2

(* lines 297-303: the filter of get_mpi_by_name_n_version, as the server
   applies it; get_states_filter(state_key="app_state", states=app_states)
   asks for the items whose app_state is one of app_states *)
ItemFilterAnyState(item, name, version, app_states, app_source) ==
    /\ item.name = name
    /\ item.version = version
    /\ app_source # NONE => item.app_source = app_source

ItemFilterAnyVersion(item, name, version, app_states, app_source) ==
    /\ item.name = name
    /\ app_states # {} => item.app_state \in app_states
    /\ app_source # NONE => item.app_source = app_source

ItemFilter(item, name, version, app_states, app_source) ==
    /\ item.name = name
    /\ item.version = version
    /\ app_states # {} => item.app_state \in app_states
    /\ app_source # NONE => item.app_source = app_source

(* lines 76-91: the filter of get_mpis_group_call; NONE for an argument
   left at its default *)
GroupFilter(item, name, app_states, app_source, app_group_uuid) ==
    /\ app_states # {} => item.app_state \in app_states
    /\ name # NONE => item.name = name
    /\ app_source # NONE => item.app_source = app_source
    /\ app_group_uuid # 0 => item.app_group_uuid = app_group_uuid

(* get_mpis_group_call: the uuids of the matching items; they come grouped
   by app_group_uuid, each group sorted by version, descending *)
get_mpis_group_call(its, name, app_states, app_source, app_group_uuid) ==
    {u \in Present(its) :
        GroupFilter(its[u], name, app_states, app_source, app_group_uuid)}

(* "group_by_column_value" of the groups of a result *)
GroupsOf(its, found) == {its[u].app_group_uuid : u \in found}

(* the first entity of a group of a result: one of greatest version *)
FirstOfGroup(its, found, g) ==
    {u \in found :
        /\ its[u].app_group_uuid = g
        /\ \A w \in found :
               its[w].app_group_uuid = g =>
                   VersionRank(its[w].version) <= VersionRank(its[u].version)}

(* get_mpi_latest_version, lines 274-287: the versions it may return (the
   first entity of the first group; the server orders the groups); none
   when it raises *)
get_mpi_latest_version(its, name, app_source, app_states) ==
    {its[u].version :
        u \in UNION {FirstOfGroup(
                         its,
                         get_mpis_group_call(its, name, app_states, app_source, 0),
                         g)
                     : g \in GroupsOf(its, get_mpis_group_call(
                                               its, name, app_states, app_source, 0))}}

(* get_mpi_by_name_n_version, lines 290-326: the items it may return
   (entities[0] of the list; the server orders it); none when it raises *)
get_mpi_by_name_n_version(its, name, version, app_states, app_source) ==
    {u \in Present(its) :
        ItemFilter(its[u], name, version, app_states, app_source)}

(* "if not version: version = get_mpi_latest_version(...)" followed by
   get_mpi_by_name_n_version, as approve, publish, reject and unpublish do;
   latest_source is the app_source the first call is given *)
Find(its, name, version, app_states, latest_source, app_source) ==
    IF version = NONE
    THEN UNION {get_mpi_by_name_n_version(its, name, v, app_states, app_source)
                : v \in get_mpi_latest_version(its, name, latest_source, app_states)}
    ELSE get_mpi_by_name_n_version(its, name, version, app_states, app_source)

ProjectRefs(projects) == projects     \* one reference per given project, in order

(* market_place.update(uuid, payload) *)
Update(its, u, item) == [its EXCEPT ![u] = item]

----------------------------------------------------------------------------
(* publish_bp_to_marketplace_manager, lines 545-591: the server stores the
   new item as a PENDING item of source LOCAL with no projects *)

publish_bp_to_marketplace_manager(its, uuid, name, version, description, app_group_uuid) ==
    [its EXCEPT ![uuid] =
        [name |-> name, version |-> version, app_state |-> "PENDING",
         app_source |-> "LOCAL",
         app_group_uuid |-> IF app_group_uuid # 0 THEN app_group_uuid ELSE uuid,
         project_reference_list |-> <<>>, category |-> NONE,
         description |-> description]]

(* publish_bp_as_new_marketplace_bp, lines 594-617 *)
PublishNewRaises(its, name) ==
    GroupsOf(its, get_mpis_group_call(its, name, {}, "LOCAL", 0)) # {}

publish_bp_as_new_marketplace_bp(its, uuid, name, version, description) ==
    IF PublishNewRaises(its, name) THEN its
    ELSE publish_bp_to_marketplace_manager(its, uuid, name, version, description, 0)

(* line 641: the states an item of the same version must not be in *)
ActiveStates == {"PUBLISHED", "PENDING", "ACCEPTED"}

(* publish_bp_as_existing_marketplace_bp, lines 620-665; g is the group the
   first call returns first *)
ExistingGroups(its, name) ==
    GroupsOf(its, get_mpis_group_call(its, name, {}, "LOCAL", 0))

PublishExistingRaisesInAnyVersion(its, g, version) ==
    get_mpis_group_call(its, NONE, ActiveStates, NONE, g) = {}

PublishExistingRaisesIn(its, g, version) ==
    \/ get_mpis_group_call(its, NONE, ActiveStates, NONE, g) = {}  \* group_results[0]
    \/ \E u \in get_mpis_group_call(its, NONE, ActiveStates, NONE, g) :
           its[u].version = version

publish_bp_as_existing_marketplace_bp(its, uuid, g, name, version, description) ==
    IF PublishExistingRaisesIn(its, g, version) THEN its
    ELSE publish_bp_to_marketplace_manager(its, uuid, name, version, description, g)

----------------------------------------------------------------------------
(* approve, publish, update, delete, reject, unpublish *)

BadCategory(category) == category # NONE /\ category \notin AppFamilies
WithCategory(item, category) ==
    IF category # NONE THEN [item EXCEPT !.category = category] ELSE item

(* approve_marketplace_bp, lines 668-709, on the item u it found *)
ApproveTargets(its, bp_name, version) ==
    Find(its, bp_name, version, {"PENDING"}, NONE, "LOCAL")

approve_marketplace_bp(its, u, projects, category) ==
    IF BadCategory(category) THEN its
    ELSE Update(its, u,
             [WithCategory(its[u], category) EXCEPT
                 !.app_state = "ACCEPTED",
                 !.project_reference_list = @ \o ProjectRefs(projects)])

(* publish_marketplace_bp, lines 712-766 *)
PublishTargets(its, bp_name, version, app_source) ==
    Find(its, bp_name, version, {"ACCEPTED"}, app_source, app_source)

PublishProjectsAppended(item, projects) ==
    item.project_reference_list \o ProjectRefs(projects)

PublishProjects(item, projects) ==
    IF projects # <<>> THEN ProjectRefs(projects) ELSE item.project_reference_list

publish_marketplace_bp(its, u, projects, category) ==
    IF BadCategory(category) \/ PublishProjects(its[u], projects) = <<>> THEN its
    ELSE Update(its, u,
             [WithCategory(its[u], category) EXCEPT
                 !.app_state = "PUBLISHED",
                 !.project_reference_list = PublishProjects(its[u], projects)])

(* update_marketplace_bp, lines 769-820 *)
UpdateTargets(its, name, version, app_source) ==
    get_mpi_by_name_n_version(its, name, version,
                              {"PENDING", "ACCEPTED", "PUBLISHED"}, app_source)

update_marketplace_bp(its, u, category, projects, description) ==
    IF BadCategory(category) THEN its
    ELSE Update(its, u,
             [WithCategory(its[u], category) EXCEPT
                 !.project_reference_list = PublishProjects(its[u], projects),
                 !.description = IF description # NONE /\ description # ""
                                 THEN description ELSE @])

(* delete_marketplace_bp, lines 823-838 *)
DeleteStatesUnfiltered(app_state) ==
    IF app_state # NONE THEN {app_state} ELSE {}

DeleteStates(app_state) ==
    IF app_state # NONE THEN {app_state} ELSE {"ACCEPTED", "REJECTED", "PENDING"}

DeleteTargets(its, name, version, app_source, app_state) ==
    IF app_state = "PUBLISHED" THEN {}
    ELSE get_mpi_by_name_n_version(its, name, version, DeleteStates(app_state),
                                   app_source)

delete_marketplace_bp(its, u) == [its EXCEPT ![u] = NoItem]

(* reject_marketplace_bp, lines 841-863 *)
RejectTargets(its, name, version) == Find(its, name, version, {"PENDING"}, NONE, NONE)

reject_marketplace_bp(its, u) ==
    Update(its, u, [its[u] EXCEPT !.app_state = "REJECTED"])

(* unpublish_marketplace_bp, lines 866-891 *)
UnpublishTargets(its, name, version, app_source) ==
    Find(its, name, version, {"PUBLISHED"}, app_source, app_source)

unpublish_marketplace_bp(its, u) ==
    Update(its, u, [its[u] EXCEPT !.app_state = "ACCEPTED"])

----------------------------------------------------------------------------
(* The commands as steps of the server's store.  A command that raises      *)
(* leaves the store as it was.  Categories and Descriptions are the values  *)
(* the callers pass for category and description.                           *)

SourceArgs == {NONE, "LOCAL", "GLOBAL_STORE"}
VersionArgs == Versions \cup {NONE}

(* an item that came to the server from the global store *)
GlobalItem ==
    [name |-> "n1", version |-> "v1", app_state |-> "PUBLISHED",
     app_source |-> "GLOBAL_STORE", app_group_uuid |-> 1,
     project_reference_list |-> <<"p1">>, category |-> NONE,
     description |-> ""]

InitMpi ==
    /\ \/ NoMarketplace
       \/ /\ items = [u \in Uuids |-> IF u = 1 THEN GlobalItem ELSE NoItem]
          /\ next_uuid = 2
    /\ object_lists = <<>>
    /\ objects = <<>>
    /\ resources = EmptyDict
    /\ orig = EmptyDict
    /\ secret_map = EmptyDict
    /\ secret_variables = <<>>
    /\ not_stripped_secrets = <<>>
    /\ decompiled_secrets = EmptyDict
    /\ caller_path_list = <<>>
    /\ pc = "start"
    /\ NoCall

(* market_place.create: the server stores the item under a new uuid *)
Created(its) ==
    /\ items' = its
    /\ next_uuid' = IF its = items THEN next_uuid ELSE next_uuid + 1

Updated(its) ==
    /\ items' = its
    /\ UNCHANGED next_uuid

CallPublishNew(Descriptions) ==
    /\ next_uuid <= MaxItems
    /\ \E name \in Names, version \in Versions, description \in Descriptions :
           Created(publish_bp_as_new_marketplace_bp(items, next_uuid, name,
                                                    version, description))
    /\ UNCHANGED stripVars
    /\ UNCHANGED cmdVars

CallPublishExisting(Descriptions) ==
    /\ next_uuid <= MaxItems
    /\ \E name \in Names, version \in Versions, description \in Descriptions :
           IF ExistingGroups(items, name) = {}
           THEN UNCHANGED mpiVars
           ELSE \E g \in ExistingGroups(items, name) :
                    Created(publish_bp_as_existing_marketplace_bp(
                                items, next_uuid, g, name, version, description))
    /\ UNCHANGED stripVars
    /\ UNCHANGED cmdVars

CallApprove(Categories) ==
    /\ \E bp_name \in Names, version \in VersionArgs, projects \in ProjectArgs,
          category \in Categories :
           IF ApproveTargets(items, bp_name, version) = {}
           THEN UNCHANGED mpiVars
           ELSE \E u \in ApproveTargets(items, bp_name, version) :
                    Updated(approve_marketplace_bp(items, u, projects, category))
    /\ UNCHANGED stripVars
    /\ UNCHANGED cmdVars

CallPublish(Categories) ==
    /\ \E bp_name \in Names, version \in VersionArgs, projects \in ProjectArgs,
          category \in Categories, app_source \in SourceArgs :
           IF PublishTargets(items, bp_name, version, app_source) = {}
           THEN UNCHANGED mpiVars
           ELSE \E u \in PublishTargets(items, bp_name, version, app_source) :
                    Updated(publish_marketplace_bp(items, u, projects, category))
    /\ UNCHANGED stripVars
    /\ UNCHANGED cmdVars

CallUpdate(Categories, Descriptions) ==
    /\ \E name \in Names, version \in Versions, category \in Categories,
          projects \in ProjectArgs, description \in Descriptions \cup {NONE},
          app_source \in SourceArgs :
           IF UpdateTargets(items, name, version, app_source) = {}
           THEN UNCHANGED mpiVars
           ELSE \E u \in UpdateTargets(items, name, version, app_source) :
                    Updated(update_marketplace_bp(items, u, category, projects,
                                                  description))
    /\ UNCHANGED stripVars
    /\ UNCHANGED cmdVars

CallDelete ==
    /\ \E name \in Names, version \in Versions, app_source \in SourceArgs,
          app_state \in AppStates \cup {NONE} :
           IF DeleteTargets(items, name, version, app_source, app_state) = {}
           THEN UNCHANGED mpiVars
           ELSE \E u \in DeleteTargets(items, name, version, app_source, app_state) :
                    Updated(delete_marketplace_bp(items, u))
    /\ UNCHANGED stripVars
    /\ UNCHANGED cmdVars

CallReject ==
    /\ \E name \in Names, version \in VersionArgs :
           IF RejectTargets(items, name, version) = {}
           THEN UNCHANGED mpiVars
           ELSE \E u \in RejectTargets(items, name, version) :
                    Updated(reject_marketplace_bp(items, u))
    /\ UNCHANGED stripVars
    /\ UNCHANGED cmdVars

CallUnpublish ==
    /\ \E name \in Names, version \in VersionArgs, app_source \in SourceArgs :
           IF UnpublishTargets(items, name, version, app_source) = {}
           THEN UNCHANGED mpiVars
           ELSE \E u \in UnpublishTargets(items, name, version, app_source) :
                    Updated(unpublish_marketplace_bp(items, u))
    /\ UNCHANGED stripVars
    /\ UNCHANGED cmdVars

NextMpiWith(Categories, Descriptions) ==
    \/ CallPublishNew(Descriptions)
    \/ CallPublishExisting(Descriptions)
    \/ CallApprove(Categories)
    \/ CallPublish(Categories)
    \/ CallUpdate(Categories, Descriptions)
    \/ CallDelete
    \/ CallReject
    \/ CallUnpublish

(* the lifecycle of the items: every command, called with no category or one
   the server does not know and with the default description *)
MpiCategories == {NONE, "bad"}
MpiDescriptions == {""}

NextMpi == NextMpiWith(MpiCategories, MpiDescriptions)

SpecMpi == InitMpi /\ [][NextMpi]_allVars

----------------------------------------------------------------------------
(* The marketplace claims *)

Active(item) == item.app_state \in {"PENDING", "ACCEPTED", "PUBLISHED"}
Local(its) == {u \in Present(its) : its[u].app_source = "LOCAL"}

(* the changes of app_state the lifecycle allows *)
Lifecycle ==
    {<<"PENDING", "ACCEPTED">>, <<"ACCEPTED", "PUBLISHED">>,
     <<"PENDING", "REJECTED">>, <<"PUBLISHED", "ACCEPTED">>}

Moved(u, from, to) == items[u].app_state = from /\ items'[u].app_state = to

(* C8: the app_state of an item changes only PENDING -> ACCEPTED (by
   approve), ACCEPTED -> PUBLISHED (by publish), PENDING -> REJECTED (by
   reject) and PUBLISHED -> ACCEPTED (by unpublish); update_marketplace_bp
   leaves it as it is; an item becomes PUBLISHED only from ACCEPTED and
   leaves REJECTED only by being deleted. *)
C8_Lifecycle ==
    /\ [][\A u \in Uuids :
              /\ (u \in Present(items) /\ u \in Present(items')
                    /\ items[u].app_state # items'[u].app_state)
                     => <<items[u].app_state, items'[u].app_state>> \in Lifecycle
              /\ (u \notin Present(items) /\ u \in Present(items'))
                     => items'[u].app_state = "PENDING"
              /\ Moved(u, "PENDING", "ACCEPTED") => CallApprove(MpiCategories)
              /\ Moved(u, "ACCEPTED", "PUBLISHED") => CallPublish(MpiCategories)
              /\ Moved(u, "PENDING", "REJECTED") => CallReject
              /\ Moved(u, "PUBLISHED", "ACCEPTED") => CallUnpublish
              /\ Moved(u, "REJECTED", "NONE") => CallDelete
      ]_allVars
    /\ [](\A name \in Names, version \in Versions, app_source \in SourceArgs :
              \A u \in UpdateTargets(items, name, version, app_source) :
                  \A category \in MpiCategories, projects \in ProjectArgs,
                     description \in MpiDescriptions \cup {NONE} :
                      \A w \in Uuids :
                          update_marketplace_bp(items, u, category, projects,
                                                description)[w].app_state
                            = items[w].app_state)

(* a LOCAL item went through approve and publish,
   and another was rejected *)
C8_Witness ==
    \E u, w \in Local(items) :
        /\ items[u].app_state = "PUBLISHED"
        /\ items[w].app_state = "REJECTED"

NoDuplicateActiveVersion(its) ==
    \A u, w \in Present(its) :
        (u # w /\ its[u].app_group_uuid = its[w].app_group_uuid
              /\ its[u].version = its[w].version)
            => ~(Active(its[u]) /\ Active(its[w]))

UniqueLocalGroupNames(its) ==
    \A u, w \in Local(its) :
        its[u].name = its[w].name => its[u].app_group_uuid = its[w].app_group_uuid

(* C9: no app group holds two items of the same version that are both
   PENDING, ACCEPTED or PUBLISHED, and no two app groups of LOCAL items have
   the same name; publish_bp_as_new_marketplace_bp for a name a LOCAL item
   has, and publish_bp_as_existing_marketplace_bp for a version an active
   item of the group has, raise and create no item. *)
C9_GroupsKeptApart ==
    /\ NoDuplicateActiveVersion(items)
    /\ UniqueLocalGroupNames(items)
    /\ next_uuid <= MaxItems =>
          \A name \in Names, version \in Versions :
              /\ (\E u \in Local(items) : items[u].name = name)
                     => /\ PublishNewRaises(items, name)
                        /\ publish_bp_as_new_marketplace_bp(
                               items, next_uuid, name, version, "") = items
              /\ \A g \in ExistingGroups(items, name) :
                     (\E u \in Present(items) :
                          /\ items[u].app_group_uuid = g
                          /\ items[u].version = version
                          /\ Active(items[u]))
                         => /\ PublishExistingRaisesIn(items, g, version)
                            /\ publish_bp_as_existing_marketplace_bp(
                                   items, next_uuid, g, name, version, "") = items

(* publish_bp_as_existing_marketplace_bp has put a second version into an
   app group *)
C9_Witness ==
    \E u, w \in Local(items) :
        /\ items[u].app_group_uuid = items[w].app_group_uuid
        /\ items[u].version # items[w].version
        /\ Active(items[u]) /\ Active(items[w])

(* C10: publish_bp_as_existing_marketplace_bp for a name whose LOCAL items
   of the requested version are all REJECTED, every item of the group being
   REJECTED included, does not raise and creates the item in the app group
   of that name. *)
C10_RejectedVersionRepublished ==
    next_uuid <= MaxItems =>
        \A name \in Names, version \in Versions :
            (/\ ExistingGroups(items, name) # {}
             /\ \A u \in Local(items) :
                    (items[u].name = name /\ items[u].version = version)
                        => items[u].app_state = "REJECTED")
                => \A g \in ExistingGroups(items, name) :
                       /\ ~PublishExistingRaisesIn(items, g, version)
                       /\ publish_bp_as_existing_marketplace_bp(
                              items, next_uuid, g, name, version, "")[next_uuid]
                            = [NoItem EXCEPT !.name = name, !.version = version,
                                             !.app_state = "PENDING",
                                             !.app_source = "LOCAL",
                                             !.app_group_uuid = g]

(* C11: publish_marketplace_bp raises and sends no update, so that the item
   stays ACCEPTED, whenever no projects are given and the item's stored
   project_reference_list is empty; when projects are given and the call
   goes through, the stored list becomes exactly the given projects. *)
C11_PublishNeedsProject ==
    \A bp_name \in Names, version \in VersionArgs, app_source \in SourceArgs :
        \A u \in PublishTargets(items, bp_name, version, app_source) :
            \A projects \in ProjectArgs, category \in MpiCategories :
                /\ (projects = <<>> /\ items[u].project_reference_list = <<>>)
                       => publish_marketplace_bp(items, u, projects, category) = items
                /\ (projects # <<>> /\ ~BadCategory(category))
                       => /\ publish_marketplace_bp(items, u, projects, category)[u]
                                 .project_reference_list = ProjectRefs(projects)
                          /\ publish_marketplace_bp(items, u, projects, category)[u]
                                 .app_state = "PUBLISHED"

(* an ACCEPTED item without projects, which cannot be published as it is,
   and an ACCEPTED item that was approved with a project *)
C11_Witness ==
    \E u, w \in Local(items) :
        /\ items[u].app_state = "ACCEPTED"
        /\ items[u].project_reference_list = <<>>
        /\ items[w].app_state = "ACCEPTED"
        /\ items[w].project_reference_list # <<>>

(* C12: delete_marketplace_bp never deletes a PUBLISHED item: called with
   app_state PUBLISHED it raises before any request, otherwise the item it
   deletes is ACCEPTED, REJECTED or PENDING; no step takes a PUBLISHED item
   away. *)
C12_PublishedNotDeleted ==
    /\ [](\A name \in Names, version \in Versions, app_source \in SourceArgs :
              /\ DeleteTargets(items, name, version, app_source, "PUBLISHED") = {}
              /\ \A app_state \in AppStates \cup {NONE} :
                     \A u \in DeleteTargets(items, name, version, app_source, app_state) :
                         items[u].app_state \in {"ACCEPTED", "REJECTED", "PENDING"})
    /\ [][\A u \in Uuids :
              items[u].app_state = "PUBLISHED" => u \in Present(items')]_allVars

(* an item was deleted while another is PUBLISHED *)
C12_Witness ==
    \E u, w \in Uuids :
        /\ u < next_uuid /\ u \notin Present(items)
        /\ items[w].app_state = "PUBLISHED"

----------------------------------------------------------------------------
(* update_marketplace_bp on its own: called with every kind of category and *)
(* description on a server that holds items in every app_state.             *)

UpdateCategories == {NONE, "c1", "bad"}
UpdateDescriptions == {"", "d1"}

(* an item as the commands leave it on the server *)
StoredItem(name, version, app_state, app_group_uuid, projects) ==
    [NoItem EXCEPT !.name = name, !.version = version, !.app_state = app_state,
                   !.app_source = "LOCAL", !.app_group_uuid = app_group_uuid,
                   !.project_reference_list = projects]

StoredItems ==
    {NoItem, GlobalItem,
     StoredItem("n1", "v1", "PENDING", 11, <<>>),
     StoredItem("n1", "v1", "REJECTED", 11, <<>>),
     StoredItem("n1", "v2", "PUBLISHED", 11, <<"p1">>),
     StoredItem("n2", "v1", "ACCEPTED", 12, <<>>)}

NoPayload ==
    /\ object_lists = <<>>
    /\ objects = <<>>
    /\ resources = EmptyDict
    /\ orig = EmptyDict
    /\ secret_map = EmptyDict
    /\ secret_variables = <<>>
    /\ not_stripped_secrets = <<>>
    /\ decompiled_secrets = EmptyDict
    /\ caller_path_list = <<>>
    /\ pc = "start"

InitMpiUpdate ==
    /\ items \in [Uuids -> StoredItems]
    /\ \A u, w \in Uuids : (u # w /\ items[u] = items[w]) => items[u] = NoItem
    /\ next_uuid = MaxItems + 1
    /\ NoPayload
    /\ NoCall

NextMpiUpdate == CallUpdate(UpdateCategories, UpdateDescriptions)

SpecMpiUpdate == InitMpiUpdate /\ [][NextMpiUpdate]_allVars

(* what update_marketplace_bp may touch of the item u, r being the items
   after the call *)
UpdateFrame(its, r, u, category, projects, description) ==
    /\ \A w \in DOMAIN its : w # u => r[w] = its[w]
    /\ r[u].name = its[u].name
    /\ r[u].version = its[u].version
    /\ r[u].app_state = its[u].app_state
    /\ r[u].app_source = its[u].app_source
    /\ r[u].app_group_uuid = its[u].app_group_uuid
    /\ r[u].category \in {its[u].category, category}
    /\ category = NONE => r[u].category = its[u].category
    /\ r[u].project_reference_list
           \in {its[u].project_reference_list, ProjectRefs(projects)}
    /\ r[u].description \in {its[u].description, description}
    /\ description \in {NONE, ""} => r[u].description = its[u].description

(* C13: update_marketplace_bp changes only the item whose name and version
   are the given ones, and of it only the category, project_reference_list
   and description that were supplied; its app_state and every other item
   stay as they are. *)
C13_UpdateFrame ==
    /\ [](\A name \in Names, version \in Versions, app_source \in SourceArgs :
              \A u \in UpdateTargets(items, name, version, app_source) :
                  /\ items[u].name = name
                  /\ items[u].version = version
                  /\ \A category \in UpdateCategories, projects \in ProjectArgs,
                        description \in UpdateDescriptions \cup {NONE} :
                         UpdateFrame(items,
                                     update_marketplace_bp(items, u, category,
                                                           projects, description),
                                     u, category, projects, description))
    /\ [][\A u, w \in Uuids :
              (u # w /\ items'[u] # items[u]) => items'[w] = items[w]]_allVars

(* a PENDING item was given a category, a project and a description next to
   an item of another version that was not touched *)
C13_Witness ==
    \E u, w \in Uuids :
        /\ items[u] = [StoredItem("n1", "v1", "PENDING", 11, <<"p1">>)
                           EXCEPT !.category = "c1", !.description = "d1"]
        /\ items[w] = StoredItem("n1", "v2", "PUBLISHED", 11, <<"p1">>)

----------------------------------------------------------------------------
(* create_acp and delete_acp of cli/acps.py *)

(* how a command ends: at is the place in the command, logged whether
   LOG.error was called, sent the requests that changed something *)
Returned(at, value, sent) ==
    [end |-> "returned", at |-> at, value |-> value, status |-> 0,
     logged |-> FALSE, sent |-> sent]
Exited(at, status, sent) ==
    [end |-> "exited", at |-> at, value |-> NONE, status |-> status,
     logged |-> TRUE, sent |-> sent]
Raised(at, exception, sent) ==
    [end |-> "raised", at |-> at, value |-> exception, status |-> 1,
     logged |-> FALSE, sent |-> sent]

(* what create_acp meets: whether each acp.list call and the acp.create call
   fail, whether the lists return entities, whether the caches know the
   project and the role *)
CreateAcpCalls ==
    [cmd : {"create_acp"}, name_list_err : BOOLEAN, name_exists : BOOLEAN,
     project_cached : BOOLEAN, role_cached : BOOLEAN, role_list_err : BOOLEAN,
     role_project_exists : BOOLEAN, create_err : BOOLEAN]

(* create_acp, acps.py:100-236 *)
create_acp(c) ==
    IF c.name_list_err THEN Returned("name_list_err", "(None, err)", <<>>)
    ELSE IF c.name_exists THEN Exited("name_exists", -1, <<>>)
    ELSE IF ~c.project_cached THEN Exited("project_missing", -1, <<>>)
    ELSE IF ~c.role_cached THEN Raised("role_missing", "TypeError", <<>>)
    ELSE IF c.role_list_err THEN Returned("role_list_err", "(None, err)", <<>>)
    ELSE IF c.role_project_exists THEN Exited("role_project_exists", -1, <<>>)
    ELSE IF c.create_err THEN Exited("create_err", -1, <<>>)
    ELSE Returned("created", NONE, <<"create">>)

CreateAcp ==
    /\ call.cmd = "create_acp"
    /\ outcome = NotCalled
    /\ outcome' = create_acp(call)
    /\ UNCHANGED <<call, CATEGORIES_PAYLOAD>>
    /\ UNCHANGED <<stripVars, mpiVars>>

MaxNames == 2      \* names given to delete_acp

AcpNames == {"a1", "a2", "a3"}

(* client.acp.get_name_uuid_map: a name has one uuid or, when several ACPs
   bear it, the list of them; a3 is no ACP *)
AcpNameUuidMap == [a \in {"a1", "a2"} |-> IF a = "a1" THEN <<"u1">> ELSE <<"u2", "u3">>]
AcpUuids == {"u1", "u2", "u3"}

(* what delete_acp_using_projects_internal_api meets for an ACP: it
   references no project, the read of the project fails, the update of the
   project fails, or all goes well *)
AcpFates == {"ok", "no_project", "read_err", "update_err"}

DeleteAcpCalls ==
    [cmd : {"delete_acp"}, acp_names : SeqsUpTo(AcpNames, MaxNames),
     acp_name_uuid_map : {AcpNameUuidMap}, fate : [AcpUuids -> AcpFates]]

(* the walk of delete_acp: exited once sys.exit was called, at where, sent
   the uuids whose deletion was triggered *)
DeleteWalk == [exited |-> FALSE, at |-> "deleted", sent |-> <<>>]

(* delete_acp_using_projects_internal_api, acps.py:279-313 *)
delete_acp_using_projects_internal_api(acp_uuid, fate, r) ==
    IF fate[acp_uuid] = "no_project" THEN r
    ELSE IF fate[acp_uuid] = "read_err"
    THEN [r EXCEPT !.exited = TRUE, !.at = "project_read_err"]
    ELSE IF fate[acp_uuid] = "update_err"
    THEN [r EXCEPT !.exited = TRUE, !.at = "project_update_err"]
    ELSE [r EXCEPT !.sent = Append(@, acp_uuid)]

(* acps.py:270-274, the uuids of one name *)
RECURSIVE DeleteAcpUuids(_, _, _, _)
DeleteAcpUuids(acp_uuid, j, fate, r) ==
    IF j > Len(acp_uuid) \/ r.exited THEN r
    ELSE DeleteAcpUuids(acp_uuid, j + 1, fate,
                        delete_acp_using_projects_internal_api(acp_uuid[j], fate, r))

RECURSIVE DeleteAcpNamesSkipping(_, _, _, _, _)
DeleteAcpNamesSkipping(acp_names, i, acp_name_uuid_map, fate, r) ==
    IF i > Len(acp_names) \/ r.exited THEN r
    ELSE IF Get(acp_name_uuid_map, acp_names[i], <<>>) = <<>>
    THEN DeleteAcpNamesSkipping(acp_names, i + 1, acp_name_uuid_map, fate, r)
    ELSE DeleteAcpNamesSkipping(acp_names, i + 1, acp_name_uuid_map, fate,
                                DeleteAcpUuids(acp_name_uuid_map[acp_names[i]], 1, fate, r))

(* acps.py:264-276, the loop over acp_names *)
RECURSIVE DeleteAcpNames(_, _, _, _, _)
DeleteAcpNames(acp_names, i, acp_name_uuid_map, fate, r) ==
    IF i > Len(acp_names) \/ r.exited THEN r
    ELSE IF Get(acp_name_uuid_map, acp_names[i], <<>>) = <<>>
    THEN [r EXCEPT !.exited = TRUE, !.at = "name_missing"]
    ELSE DeleteAcpNames(acp_names, i + 1, acp_name_uuid_map, fate,
                        DeleteAcpUuids(acp_name_uuid_map[acp_names[i]], 1, fate, r))

DeleteAcpEnd(r) ==
    IF r.exited THEN Exited(r.at, -1, r.sent) ELSE Returned(r.at, NONE, r.sent)

(* delete_acp, acps.py:258-276, the definition that is in force *)
delete_acp(c) ==
    DeleteAcpEnd(DeleteAcpNames(c.acp_names, 1, c.acp_name_uuid_map, c.fate,
                                DeleteWalk))

DeleteAcp ==
    /\ call.cmd = "delete_acp"
    /\ outcome = NotCalled
    /\ outcome' = delete_acp(call)
    /\ UNCHANGED <<call, CATEGORIES_PAYLOAD>>
    /\ UNCHANGED <<stripVars, mpiVars>>

InitAcp ==
    /\ call \in CreateAcpCalls \cup DeleteAcpCalls
    /\ outcome = NotCalled
    /\ CATEGORIES_PAYLOAD = [filter_criteria |-> BaseFilterCriteria]
    /\ NoMarketplace
    /\ NoPayload

NextAcp == CreateAcp \/ DeleteAcp

SpecAcp == InitAcp /\ [][NextAcp]_allVars

(* the error outcomes of create_acp the claim lists *)
CreateAcpErrors ==
    {"name_list_err", "name_exists", "project_missing", "role_list_err",
     "role_project_exists", "create_err"}

(* C14: every error outcome of create_acp (either ACP list call failing, an
   ACP of the chosen name existing, the project missing from the cache, an
   ACP existing for the role and project, the create call failing) ends with
   an error logged and the process exiting with a non-zero status, never
   with a normal return. *)
C14_CreateAcpErrorsExit ==
    (call.cmd = "create_acp" /\ outcome # NotCalled
        /\ outcome.at \in CreateAcpErrors)
        => /\ outcome.end = "exited"
           /\ outcome.logged
           /\ outcome.status # 0

(* the index of the first of acp_names that the map does not have, or
   Len(acp_names) + 1 *)
RECURSIVE FirstMissing(_, _, _)
FirstMissing(acp_names, acp_name_uuid_map, i) ==
    IF i > Len(acp_names) \/ Get(acp_name_uuid_map, acp_names[i], <<>>) = <<>>
    THEN i
    ELSE FirstMissing(acp_names, acp_name_uuid_map, i + 1)

(* the uuids of the first n of acp_names, in order *)
RECURSIVE UuidsOfNames(_, _, _)
UuidsOfNames(acp_names, acp_name_uuid_map, n) ==
    IF n = 0 THEN <<>>
    ELSE UuidsOfNames(acp_names, acp_name_uuid_map, n - 1)
         \o acp_name_uuid_map[acp_names[n]]

Missing(c) == FirstMissing(c.acp_names, c.acp_name_uuid_map, 1)
UuidsBeforeMissing(c) == UuidsOfNames(c.acp_names, c.acp_name_uuid_map, Missing(c) - 1)

(* delete_acp stopped at the first missing name: exit status -1 and no
   deletion but for names before it *)
StopsAtMissing(c, out) ==
    Missing(c) <= Len(c.acp_names) =>
        /\ out.end = "exited"
        /\ out.status = -1
        /\ Len(out.sent) <= Len(UuidsBeforeMissing(c))
        /\ \A k \in DOMAIN out.sent :
               \E j \in DOMAIN UuidsBeforeMissing(c) :
                   out.sent[k] = UuidsBeforeMissing(c)[j]

(* C18: delete_acp takes the names in order and stops at the first that is
   not in the name-to-uuid map: it exits with status -1 and triggers no
   deletion for that name or a later one, the deletions triggered before
   standing; when all names exist, deletion is triggered for every uuid of
   every name. *)
C18_DeleteAcpInOrder ==
    (call.cmd = "delete_acp" /\ outcome # NotCalled) =>
        /\ StopsAtMissing(call, outcome)
        /\ Missing(call) > Len(call.acp_names) =>
               outcome.sent = UuidsBeforeMissing(call)

(* C18, amended: as C18, the last part holding when every ACP of the names
   references a project and no read or update of a project fails; then
   delete_acp also returns normally. *)
C18_DeleteAcpInOrderWhenProjectsAnswer ==
    (call.cmd = "delete_acp" /\ outcome # NotCalled) =>
        /\ StopsAtMissing(call, outcome)
        /\ (/\ Missing(call) > Len(call.acp_names)
            /\ \A j \in DOMAIN UuidsBeforeMissing(call) :
                   call.fate[UuidsBeforeMissing(call)[j]] = "ok")
               => /\ outcome.sent = UuidsBeforeMissing(call)
                  /\ outcome.end = "returned"

(* delete_acp triggered the deletion of both ACPs named a2 and stopped at
   a3, which is no ACP, leaving a1 alone *)
C18_Witness ==
    /\ call.cmd = "delete_acp"
    /\ call.acp_names = <<"a2", "a3">>
    /\ outcome # NotCalled
    /\ outcome.end = "exited"
    /\ outcome.sent = <<"u2", "u3">>

----------------------------------------------------------------------------
(* AhvVmProvider.get_api_obj of providers/plugins/ahv_vm/main.py.  A version *)
(* string is the sequence of its characters.                                *)

MaxComponents == 3      \* numbers in a Calm version

Digits == <<"0", "1", "2", "3", "4", "5", "6", "7", "8", "9">>
DigitValue(ch) == CHOOSE d \in 0..9 : Digits[d + 1] = ch
IsDigit(ch) == \E d \in 0..9 : Digits[d + 1] = ch

(* str of a number and the dotted string of a list of numbers *)
RECURSIVE Str(_)
Str(n) == IF n < 10 THEN <<Digits[n + 1]>> ELSE Str(n \div 10) \o <<Digits[(n % 10) + 1]>>

RECURSIVE Dotted(_, _)
Dotted(components, i) ==
    IF i > Len(components) THEN <<>>
    ELSE (IF i > 1 THEN <<".">> ELSE <<>>) \o Str(components[i])
         \o Dotted(components, i + 1)

(* distutils' LooseVersion of a string of digits and dots: the list of the
   numbers between the dots; run is the number being read, in_run whether
   one is *)
RECURSIVE LVParse(_, _, _, _, _)
LVParse(vstring, i, run, in_run, version) ==
    IF i > Len(vstring)
    THEN IF in_run THEN Append(version, run) ELSE version
    ELSE IF IsDigit(vstring[i])
    THEN LVParse(vstring, i + 1, run * 10 + DigitValue(vstring[i]), TRUE, version)
    ELSE LVParse(vstring, i + 1, 0, FALSE,
                 IF in_run THEN Append(version, run) ELSE version)

LV(vstring) == LVParse(vstring, 1, 0, FALSE, <<>>)

(* a <= b for the lists two LooseVersions hold *)
RECURSIVE ListLeq(_, _, _)
ListLeq(a, b, i) ==
    IF i > Len(a) THEN TRUE
    ELSE IF i > Len(b) THEN FALSE
    ELSE IF a[i] # b[i] THEN a[i] < b[i]
    ELSE ListLeq(a, b, i + 1)

LVGreaterThanOrEqual(a, b) == ListLeq(LV(b), LV(a), 1)

LVLessThanOrEqual(a, b) == ListLeq(LV(a), LV(b), 1)

(* AhvBase.api_handlers, main.py:82-90: AhvNew registers under "2.9.0"
   (line 109), then Ahv under "0" (line 212) *)
api_handlers ==
    <<[version |-> <<"2", ".", "9", ".", "0">>, handler |-> "AhvNew"],
      [version |-> <<"0">>, handler |-> "Ahv"]>>

(* main.py:69-72 *)
RECURSIVE supported_versions(_, _, _)
supported_versions(handlers, calm_version, i) ==
    IF i > Len(handlers) THEN <<>>
    ELSE (IF LVLessThanOrEqual(handlers[i].version, calm_version)
          THEN <<handlers[i]>> ELSE <<>>)
         \o supported_versions(handlers, calm_version, i + 1)

(* max(supported, key=LV), main.py:74: the first of the greatest; best is
   the index of the greatest so far *)
RECURSIVE MaxByLV(_, _, _)
MaxByLV(supported, i, best) ==
    IF i > Len(supported) THEN supported[best]
    ELSE MaxByLV(supported, i + 1,
                 IF LVLessThanOrEqual(supported[i].version, supported[best].version)
                 THEN best ELSE i)

GetApiObjEnd(supported) ==
    IF supported = <<>> THEN Raised("max", "ValueError", <<>>)
    ELSE Returned("api_handler", MaxByLV(supported, 2, 1).handler, <<>>)

(* AhvVmProvider.get_api_obj, main.py:60-76 *)
get_api_obj(c) == GetApiObjEnd(supported_versions(api_handlers, c.calm_version, 1))

VersionNumbers == {0, 2, 3, 9, 10}

GetApiObjCalls ==
    {[cmd |-> "get_api_obj", numbers |-> n, calm_version |-> Dotted(n, 1)]
        : n \in SeqsUpTo(VersionNumbers, MaxComponents) \ {<<>>}}

InitAhv ==
    /\ call \in GetApiObjCalls
    /\ outcome = NotCalled
    /\ CATEGORIES_PAYLOAD = [filter_criteria |-> BaseFilterCriteria]
    /\ NoMarketplace
    /\ NoPayload

GetApiObj ==
    /\ call.cmd = "get_api_obj"
    /\ outcome = NotCalled
    /\ outcome' = get_api_obj(call)
    /\ UNCHANGED <<call, CATEGORIES_PAYLOAD>>
    /\ UNCHANGED <<stripVars, mpiVars>>

NextAhv == GetApiObj

SpecAhv == InitAhv /\ [][NextAhv]_allVars

(* the numbers of a version are at least 2.9.0 *)
AtLeast290(n) ==
    \/ n[1] > 2
    \/ n[1] = 2 /\ Len(n) >= 2 /\ n[2] > 9
    \/ n[1] = 2 /\ Len(n) >= 3 /\ n[2] = 9

(* C15: get_api_obj returns an AhvNew for every calm_version >= 2.9.0 and an
   Ahv for every calm_version < 2.9.0; it returns the registered handler of
   the greatest __api_version__ that is <= calm_version, and there is always
   such a handler. *)
C15_HandlerByVersion ==
    (call.cmd = "get_api_obj" /\ outcome # NotCalled) =>
        /\ outcome.end = "returned"
        /\ outcome.value = IF AtLeast290(call.numbers) THEN "AhvNew" ELSE "Ahv"
        /\ \E h \in DOMAIN api_handlers :
               /\ api_handlers[h].handler = outcome.value
               /\ ListLeq(LV(api_handlers[h].version), call.numbers, 1)
               /\ \A g \in DOMAIN api_handlers :
                      ListLeq(LV(api_handlers[g].version), call.numbers, 1)
                          => ListLeq(LV(api_handlers[g].version),
                                     LV(api_handlers[h].version), 1)

(* get_api_obj was asked for Calm 2.10.0, which string comparison would put
   below 2.9.0, and gave an AhvNew *)
C15_Witness ==
    /\ call.cmd = "get_api_obj"
    /\ call.numbers = <<2, 10, 0>>
    /\ outcome # NotCalled
    /\ outcome.value = "AhvNew"

----------------------------------------------------------------------------
(* AhvVmProvider.update_vm_image_config, main.py:33-58 *)

MaxDisks == 2        \* disks of a VM spec
MaxPackages == 2     \* entries of disk_packages

(* AhvConstants.IMAGE_TYPES *)
IMAGE_TYPES == [DISK |-> "DISK_IMAGE", CDROM |-> "ISO_IMAGE"]

Disk(device_type) == [device_properties |-> [device_type |-> device_type]]
DiskWithImage(device_type) ==
    [device_properties |-> [device_type |-> device_type],
     data_source_reference |-> [kind |-> "image", name |-> "img0"]]
DiskChoices == {Disk("DISK"), DiskWithImage("DISK"), DiskWithImage("CDROM")}

(* a downloadable image package: what img_cls.compile() and
   ref(img_cls).compile() give *)
VmImage(name, image_type) == [name |-> name, image_type |-> image_type]
ImageChoices == {VmImage("pkg1", "DISK_IMAGE"), VmImage("pkg2", "ISO_IMAGE")}
ImageRef(img_cls) == [kind |-> "app_package", name |-> img_cls.name]

(* list[i] for a Python index i that may be negative; the list must have it *)
InRange(list, i) == -Len(list) <= i /\ i < Len(list)
Position(list, i) == IF i < 0 THEN Len(list) + i + 1 ELSE i + 1

(* the walk over disk_packages: the disks so far and the exception raised *)
DiskWalk(disk_list) == [disk_list |-> disk_list, raised |-> NONE]
DiskRaise(r, exception) == [r EXCEPT !.raised = exception]

(* main.py:42-58, for a disk_ind the test of line 39 let through *)
UpdateDisk(r, disk_ind, img_cls) ==
    IF ~InRange(r.disk_list, disk_ind - 1) THEN DiskRaise(r, "IndexError")
    ELSE IF ~Has(r.disk_list[Position(r.disk_list, disk_ind - 1)],
                 "data_source_reference")
    THEN DiskRaise(r, "ValueError")
    ELSE IF img_cls.image_type
              # IMAGE_TYPES[r.disk_list[Position(r.disk_list, disk_ind - 1)]
                               .device_properties.device_type]
    THEN DiskRaise(r, "TypeError")
    ELSE [r EXCEPT !.disk_list[Position(r.disk_list, disk_ind - 1)]
                        .data_source_reference = ImageRef(img_cls)]

(* the test of lines 39-40 *)
InvalidDiskAddress(disk_ind, disk_list) == disk_ind > Len(disk_list)

(* main.py:38-58, the loop over disk_packages.items() *)
RECURSIVE UpdateDisks(_, _, _)
UpdateDisks(disk_packages, i, r) ==
    IF i > Len(disk_packages) \/ r.raised # NONE THEN r
    ELSE IF InvalidDiskAddress(disk_packages[i].disk_ind, r.disk_list)
    THEN DiskRaise(r, "ValueError")
    ELSE UpdateDisks(disk_packages, i + 1,
                     UpdateDisk(r, disk_packages[i].disk_ind,
                                disk_packages[i].img_cls))

update_vm_image_config(c) == UpdateDisks(c.disk_packages, 1, DiskWalk(c.disk_list))

(* disk_packages, a dict: its items in order, no key twice *)
DiskPackages ==
    {p \in SeqsUpTo([disk_ind : 0..(MaxDisks + 1), img_cls : ImageChoices], MaxPackages) :
        \A i, j \in DOMAIN p : i # j => p[i].disk_ind # p[j].disk_ind}

UpdateVmImageConfigCalls ==
    [cmd : {"update_vm_image_config"}, disk_list : SeqsUpTo(DiskChoices, MaxDisks),
     disk_packages : DiskPackages]

InitVmImage ==
    /\ call \in UpdateVmImageConfigCalls
    /\ outcome = NotCalled
    /\ CATEGORIES_PAYLOAD = [filter_criteria |-> BaseFilterCriteria]
    /\ NoMarketplace
    /\ NoPayload

UpdateVmImageConfig ==
    /\ call.cmd = "update_vm_image_config"
    /\ outcome = NotCalled
    /\ outcome' = update_vm_image_config(call)
    /\ UNCHANGED <<call, CATEGORIES_PAYLOAD>>
    /\ UNCHANGED <<stripVars, mpiVars>>

NextVmImage == UpdateVmImageConfig

SpecVmImage == InitVmImage /\ [][NextVmImage]_allVars

(* what the claim has one entry of disk_packages do *)
DiskRule(r, disk_ind, img_cls) ==
    IF disk_ind \notin 1..Len(r.disk_list) THEN DiskRaise(r, "ValueError")
    ELSE IF ~Has(r.disk_list[disk_ind], "data_source_reference")
    THEN DiskRaise(r, "ValueError")
    ELSE IF img_cls.image_type
              # IMAGE_TYPES[r.disk_list[disk_ind].device_properties.device_type]
    THEN DiskRaise(r, "TypeError")
    ELSE [r EXCEPT !.disk_list[disk_ind].data_source_reference = ImageRef(img_cls)]

RECURSIVE DiskRules(_, _, _)
DiskRules(disk_packages, i, r) ==
    IF i > Len(disk_packages) \/ r.raised # NONE THEN r
    ELSE DiskRules(disk_packages, i + 1,
                   DiskRule(r, disk_packages[i].disk_ind, disk_packages[i].img_cls))

(* C16: update_vm_image_config takes the keys of disk_packages as 1-based
   disk addresses: a key outside 1..len(disk_list) raises ValueError and no
   disk is modified for it; a key k inside sets data_source_reference of
   disk_list[k-1] only, once the disk is found to have a
   data_source_reference (else ValueError) and the package's image type to
   be that of the disk's device_type (else TypeError). *)
C16_DiskAddresses ==
    (call.cmd = "update_vm_image_config" /\ outcome # NotCalled) =>
        outcome = DiskRules(call.disk_packages, 1, DiskWalk(call.disk_list))


----------------------------------------------------------------------------
(* vm_power_action_target_map of api/util.py, lines 507-678 *)

entity_type_list ==
    <<"substrate_definition_list", "service_definition_list", "app_profile_list",
      "package_definition_list">>

(* the three maps the walks share through kwargs *)
PowerMaps ==
    [vm_power_action_uuid_substrate_map |-> EmptyDict,
     task_name_substrate_map |-> EmptyDict,
     reference_runbook_to_substrate_map |-> EmptyDict]

(* "{}_{}_{}".format(entity_name, action_name, task_name) *)
TaskRef(entity_name, action_name, task_name) ==
    entity_name \o "_" \o action_name \o "_" \o task_name

CallsRunbook(task) ==
    Get(task, "type", "") = "CALL_RUNBOOK" /\ NonEmpty(Get(task, "attrs", EmptyDict))

(* util.py:525-531 and 538-544: one task of bp_payload *)
TaskNameStep(task, task_ref, kw) ==
    IF CallsRunbook(task) /\ Get(task.attrs.runbook_reference, "uuid", "") # ""
    THEN [kw EXCEPT !.task_name_substrate_map =
              Put(@, task_ref,
                  Get(kw.vm_power_action_uuid_substrate_map,
                      task.attrs.runbook_reference.uuid, ""))]
    ELSE kw

(* util.py:564-574 and 583-592: one task of exported_bp_payload; only the
   walk of a patch_list skips a reference without a name *)
ReferenceStep(task, task_ref, field, kw) ==
    IF /\ CallsRunbook(task)
       /\ ~(field = "patch_list" /\ Get(task.attrs.runbook_reference, "name", "") = "")
       /\ Get(kw.task_name_substrate_map, task_ref, "") # ""
    THEN [kw EXCEPT !.reference_runbook_to_substrate_map =
              Put(@, Get(task.attrs.runbook_reference, "name", ""),
                  kw.task_name_substrate_map[task_ref])]
    ELSE kw

TaskStep(walk, task, task_ref, field, kw) ==
    IF walk = "_create_task_name_substrate_map"
    THEN TaskNameStep(task, task_ref, kw)
    ELSE ReferenceStep(task, task_ref, field, kw)

RECURSIVE PowerTaskLoop(_, _, _, _, _, _, _)
PowerTaskLoop(walk, tasks, i, entity_name, action_name, field, kw) ==
    IF i > Len(tasks) THEN kw
    ELSE PowerTaskLoop(walk, tasks, i + 1, entity_name, action_name, field,
                       TaskStep(walk, tasks[i],
                                TaskRef(entity_name, action_name, Get(tasks[i], "name", NONE)),
                                field, kw))

(* the loop over entity.get("action_list", []) or entity.get("patch_list", []) *)
RECURSIVE PowerActionLoop(_, _, _, _, _, _)
PowerActionLoop(walk, actions, i, entity_name, field, kw) ==
    IF i > Len(actions) THEN kw
    ELSE PowerActionLoop(
             walk, actions, i + 1, entity_name, field,
             IF ~NonEmpty(Get(actions[i], "runbook", EmptyDict)) THEN kw
             ELSE PowerTaskLoop(walk,
                                Get(actions[i].runbook, "task_definition_list", <<>>),
                                1, entity_name, Get(actions[i], "name", NONE), field, kw))

RECURSIVE PowerEntityLoop(_, _, _, _)
PowerEntityLoop(walk, entity_list, i, kw) ==
    IF i > Len(entity_list) THEN kw
    ELSE PowerEntityLoop(
             walk, entity_list, i + 1,
             PowerActionLoop(walk, Get(entity_list[i], "patch_list", <<>>), 1,
                             Get(entity_list[i], "name", NONE), "patch_list",
                             PowerActionLoop(walk, Get(entity_list[i], "action_list", <<>>),
                                             1, Get(entity_list[i], "name", NONE),
                                             "action_list", kw)))

(* _create_task_name_substrate_map or _create_reference_runbook_substrate_map,
   for each of entity_type_list *)
RECURSIVE PowerTypeLoop(_, _, _, _)
PowerTypeLoop(walk, payload, i, kw) ==
    IF i > Len(entity_type_list) THEN kw
    ELSE PowerTypeLoop(walk, payload, i + 1,
                       PowerEntityLoop(walk, payload.spec.resources[entity_type_list[i]],
                                       1, kw))

(* util.py:651-656, the action runbooks of the substrates of status *)
RECURSIVE PowerActionUuids(_, _, _, _)
PowerActionUuids(substrate_name, action_list, i, kw) ==
    IF i > Len(action_list) THEN kw
    ELSE PowerActionUuids(
             substrate_name, action_list, i + 1,
             [kw EXCEPT !.vm_power_action_uuid_substrate_map =
                  Put(@, Get(Get(action_list[i], "runbook", EmptyDict), "uuid", ""),
                      substrate_name)])

RECURSIVE PowerSubstrates(_, _, _)
PowerSubstrates(substrate_def_list, i, kw) ==
    IF i > Len(substrate_def_list) THEN kw
    ELSE PowerSubstrates(substrate_def_list, i + 1,
                         PowerActionUuids(Get(substrate_def_list[i], "name", NONE),
                                          Get(substrate_def_list[i], "action_list", <<>>),
                                          1, kw))

(* vm_power_action_target_map, util.py:595-678 *)
vm_power_action_target_map(bp_payload, exported_bp_payload) ==
    PowerTypeLoop(
        "_create_reference_runbook_substrate_map", exported_bp_payload, 1,
        PowerTypeLoop(
            "_create_task_name_substrate_map", bp_payload, 1,
            PowerSubstrates(bp_payload.status.resources.substrate_definition_list,
                            1, PowerMaps))).reference_runbook_to_substrate_map

MaxSites == 2      \* CALL_RUNBOOK tasks of a blueprint

(* the runbooks a task can call: the power action runbooks of the substrates
   X and Y, and a runbook that is no power action *)
PowerRunbooks ==
    {[name |-> "R1", uuid |-> "u1", substrate |-> "X"],
     [name |-> "R2", uuid |-> "u2", substrate |-> "Y"],
     [name |-> "R3", uuid |-> "u3", substrate |-> NONE]}

ActionNames == {"A", "B"}

(* the entities of a blueprint, in the order of their lists *)
PowerEntities ==
    [substrate_definition_list |-> <<"X", "Y">>,
     service_definition_list |-> <<"X">>,
     app_profile_list |-> <<"P">>,
     package_definition_list |-> <<"X">>]

PowerSites ==
    {<<entity_type, i, field>> :
        entity_type \in DOMAIN PowerEntities, i \in 1..2,
        field \in {"action_list", "patch_list"}} \cap
    {s \in (DOMAIN PowerEntities) \X (1..2) \X {"action_list", "patch_list"} :
        s[2] <= Len(PowerEntities[s[1]])}

(* a blueprint: the actions and patch configs that hold a task calling a
   runbook *)
Blueprints ==
    UNION {[sites -> [name : ActionNames, runbook : PowerRunbooks]] :
             sites \in {s \in SUBSET PowerSites : Cardinality(s) <= MaxSites}}

(* client.blueprint.read names the runbook by an alias and its uuid,
   client.blueprint.export_file by its name *)
PowerTask(runbook, exported) ==
    [name |-> "T", type |-> "CALL_RUNBOOK",
     attrs |-> [runbook_reference |->
                    IF exported THEN [kind |-> "app_runbook", name |-> runbook.name]
                    ELSE [kind |-> "app_runbook", name |-> "alias",
                          uuid |-> runbook.uuid]]]

PowerActions(bp, site, exported) ==
    IF site \in DOMAIN bp
    THEN <<[name |-> bp[site].name,
            runbook |-> [task_definition_list |->
                             <<PowerTask(bp[site].runbook, exported)>>]]>>
    ELSE <<>>

PowerEntityList(bp, entity_type, exported) ==
    [i \in 1..Len(PowerEntities[entity_type]) |->
        [name |-> PowerEntities[entity_type][i],
         action_list |-> PowerActions(bp, <<entity_type, i, "action_list">>, exported),
         patch_list |-> PowerActions(bp, <<entity_type, i, "patch_list">>, exported)]]

PowerStatus ==
    [resources |->
        [substrate_definition_list |->
            <<[name |-> "X", action_list |-> <<[name |-> "action_poweron",
                                                runbook |-> [uuid |-> "u1"]]>>],
              [name |-> "Y", action_list |-> <<[name |-> "action_poweron",
                                                runbook |-> [uuid |-> "u2"]]>>]>>]]

PowerPayload(bp, exported) ==
    [spec |-> [resources |-> [entity_type \in DOMAIN PowerEntities |->
                                  PowerEntityList(bp, entity_type, exported)]],
     status |-> IF exported THEN EmptyDict ELSE PowerStatus]

InitPower ==
    /\ call \in {[cmd |-> "vm_power_action_target_map",
                  bp_payload |-> PowerPayload(bp, FALSE),
                  exported_bp_payload |-> PowerPayload(bp, TRUE)] : bp \in Blueprints}
    /\ outcome = NotCalled
    /\ CATEGORIES_PAYLOAD = [filter_criteria |-> BaseFilterCriteria]
    /\ NoMarketplace
    /\ NoPayload

VmPowerActionTargetMap ==
    /\ call.cmd = "vm_power_action_target_map"
    /\ outcome = NotCalled
    /\ outcome' = Returned("util.py:678",
                           vm_power_action_target_map(call.bp_payload,
                                                      call.exported_bp_payload),
                           <<>>)
    /\ UNCHANGED <<call, CATEGORIES_PAYLOAD>>
    /\ UNCHANGED <<stripVars, mpiVars>>

NextPower == VmPowerActionTargetMap

SpecPower == InitPower /\ [][NextPower]_allVars

(* the CALL_RUNBOOK tasks of a payload with the names that place them *)
CallRunbookTasks(payload) ==
    LET actions(entity_type, e, field) == payload.spec.resources[entity_type][e][field]
        tasks(entity_type, e, field, a) ==
            actions(entity_type, e, field)[a].runbook.task_definition_list
        places ==
            {p \in (DOMAIN payload.spec.resources) \X (1..2)
                      \X {"action_list", "patch_list"} \X (1..MaxSites)
                      \X (1..MaxSites) :
                /\ p[2] \in DOMAIN payload.spec.resources[p[1]]
                /\ p[4] \in DOMAIN actions(p[1], p[2], p[3])
                /\ p[5] \in DOMAIN tasks(p[1], p[2], p[3], p[4])
                /\ CallsRunbook(tasks(p[1], p[2], p[3], p[4])[p[5]])}
    IN  {[entity |-> payload.spec.resources[p[1]][p[2]].name,
          action |-> actions(p[1], p[2], p[3])[p[4]].name,
          task |-> tasks(p[1], p[2], p[3], p[4])[p[5]].name,
          reference |-> tasks(p[1], p[2], p[3], p[4])[p[5]].attrs.runbook_reference]
         : p \in places}

(* uuid is the uuid of an action runbook of substrate S in the status *)
ActionRunbookOf(bp_payload, uuid, S) ==
    \E s \in DOMAIN bp_payload.status.resources.substrate_definition_list :
        /\ bp_payload.status.resources.substrate_definition_list[s].name = S
        /\ \E a \in DOMAIN bp_payload.status.resources.substrate_definition_list[s]
                               .action_list :
               bp_payload.status.resources.substrate_definition_list[s]
                   .action_list[a].runbook.uuid = uuid

(* C17: vm_power_action_target_map returns a map that contains runbook name
   R -> substrate name S exactly when some CALL_RUNBOOK task of the exported
   payload references runbook name R and the task with the same entity,
   action/config and task names in bp_payload references a runbook uuid that
   is the uuid of an action runbook of substrate S in the status of
   bp_payload; no other entry is present. *)
C17_PowerActionTargets ==
    (call.cmd = "vm_power_action_target_map" /\ outcome # NotCalled) =>
        /\ DOMAIN outcome.value \subseteq {rb.name : rb \in PowerRunbooks}
        /\ \A R \in {rb.name : rb \in PowerRunbooks}, S \in {"X", "Y"} :
               (Has(outcome.value, R) /\ outcome.value[R] = S) <=>
                   \E te \in CallRunbookTasks(call.exported_bp_payload),
                      tb \in CallRunbookTasks(call.bp_payload) :
                       /\ te.reference.name = R
                       /\ tb.entity = te.entity
                       /\ tb.action = te.action
                       /\ tb.task = te.task
                       /\ ActionRunbookOf(call.bp_payload, tb.reference.uuid, S)


----------------------------------------------------------------------------
(* AhvNew.categories of providers/plugins/ahv_vm/main.py, lines 174-205;
   CATEGORIES_PAYLOAD is the dict of the class AhvNew (113-127), the one
   object every instance and every call reads through self *)

MaxCalls == 3      \* calls of categories in one process

AccountUuids == {NONE, "", "A", "B"}

(* what the groups api answers: an err (its "error" text), or
   group_results, each a key with the values of its entity_results *)
GroupsResponses ==
    {[err |-> "e", group_results |-> <<>>],
     [err |-> NONE, group_results |-> <<>>],
     [err |-> NONE, group_results |-> <<[key |-> "k1", values |-> <<"v1", "v2">>],
                                        [key |-> "k2", values |-> <<>>]>>]}

(* main.py:198-203 *)
RECURSIVE CategoriesOf(_, _, _, _)
CategoriesOf(group_results, g, e, categories) ==
    IF g > Len(group_results) THEN categories
    ELSE IF e > Len(group_results[g].values)
    THEN CategoriesOf(group_results, g + 1, 1, categories)
    ELSE CategoriesOf(group_results, g, e + 1,
                      Append(categories, [key |-> group_results[g].key,
                                          value |-> group_results[g].values[e]]))

(* main.py:186-190: payload is CATEGORIES_PAYLOAD itself, so the assignment
   to payload["filter_criteria"] changes the dict of the class *)
CategoriesPayload(payload, host_pc, account_uuid) ==
    IF ~host_pc /\ account_uuid \notin {NONE, ""}
    THEN [payload EXCEPT !.filter_criteria = @ \o ";account_uuid==" \o account_uuid]
    ELSE payload

CategoriesSent(payload, host_pc) ==
    <<[api |-> IF host_pc THEN "groups" ELSE "nutanix/v1/groups",
       method |-> IF host_pc THEN "create" ELSE "list",
       payload |-> payload]>>

categories(payload, host_pc, res) ==
    IF res.err # NONE
    THEN Raised("main.py:195", "Exception", CategoriesSent(payload, host_pc))
    ELSE Returned("main.py:205", CategoriesOf(res.group_results, 1, 1, <<>>),
                  CategoriesSent(payload, host_pc))

InitCategories ==
    /\ call = [cmd |-> "categories", calls |-> 0]
    /\ outcome = NotCalled
    /\ CATEGORIES_PAYLOAD = [filter_criteria |-> BaseFilterCriteria]
    /\ NoMarketplace
    /\ NoPayload

Categories ==
    /\ call.cmd = "categories"
    /\ call.calls < MaxCalls
    /\ \E self \in {"ahv1", "ahv2"}, host_pc \in BOOLEAN,
          account_uuid \in AccountUuids, res \in GroupsResponses :
           /\ call' = [cmd |-> "categories", calls |-> call.calls + 1, self |-> self,
                       host_pc |-> host_pc, account_uuid |-> account_uuid]
           /\ CATEGORIES_PAYLOAD' =
                  CategoriesPayload(CATEGORIES_PAYLOAD, host_pc, account_uuid)
           /\ outcome' = categories(CATEGORIES_PAYLOAD', host_pc, res)
    /\ UNCHANGED <<stripVars, mpiVars>>

NextCategories == Categories

SpecCategories == InitCategories /\ [][NextCategories]_allVars

(* C19: calls to AhvNew.categories do not influence one another: whatever
   calls came before, on whatever instances, a call with host_pc false and
   account_uuid A sends the base filter of CATEGORIES_PAYLOAD followed by
   exactly one ';account_uuid==A' clause, and a call without account_uuid
   or with host_pc true sends the base filter with no account_uuid clause. *)
C19_CategoriesCallsIndependent ==
    (call.cmd = "categories" /\ outcome # NotCalled) =>
        outcome.sent[1].payload.filter_criteria =
            IF ~call.host_pc /\ call.account_uuid \notin {NONE, ""}
            THEN BaseFilterCriteria \o ";account_uuid==" \o call.account_uuid
            ELSE BaseFilterCriteria

====
